---- MODULE Spec2Model ----
(***************************************************************************)
(* OpenEHallPass: the pass lifecycle (request, approve, deny, cancel,      *)
(* override, batch operations, expiry sweep) over the SQLAlchemy tables    *)
(* of app/models/core.py, as driven by the Flask handlers of               *)
(* app/routes/passes.py, app/routes/kiosk.py and app/routes/admin.py.      *)
(*                                                                         *)
(* Each action is one HTTP request handled to completion: the rows it      *)
(* adds or changes are committed together, and a commit that breaks a      *)
(* table constraint (or a handler that raises) leaves the store as it was. *)
(* Time is in seconds since Monday 00:00:00.                               *)
(***************************************************************************)
EXTENDS Integers, Sequences, FiniteSets, TLC

VARIABLES
    now,          \* datetime.utcnow(), seconds since Monday 00:00:00
    passes,       \* table passes: sequence of rows, id = index
    assignments,  \* table pass_assignments: sequence of rows
    overrides,    \* table overrides: sequence of rows
    logs,         \* table logs: sequence of rows
    destinations, \* table destinations: id -> default_minutes
    users,        \* table users joined with roles: id -> [role, is_active_flag]
    periods,      \* table class_periods: id -> row
    enrollments,  \* table student_enrollments: set of rows
    kiosks,       \* table kiosks: set of rows
    settings,     \* table settings (scope global): key -> value
    resp,         \* the response to the most recent request
    inflight      \* the requests being handled: handler -> what its session has loaded

vars == <<now, passes, assignments, overrides, logs, destinations, users,
          periods, enrollments, kiosks, settings, resp, inflight>>

tables == <<passes, assignments, overrides, logs>>
config == <<destinations, users, periods, enrollments, kiosks, settings>>

-----------------------------------------------------------------------------
(* Bounds of the model *)

MaxPasses == 2
MaxTicks == 2
MaxLogs == 3
MaxRaceLogs == 4

-----------------------------------------------------------------------------
(* Values *)

NULL == 0 - 1
NoUser == ""
NoToken == ""

PENDING == "Pending"
ACTIVE == "Active"
EXPIRED == "Expired"
CANCELLED == "Cancelled"
DENIED == "Denied"
ARCHIVED == "Archived"

PassState == {PENDING, ACTIVE, EXPIRED, CANCELLED, DENIED, ARCHIVED}

\* 10:00:00 on a Monday
StartOfDay == 10 * 3600
\* the clock moves in steps of five minutes
ClockStep == 5 * 60

Seconds(minutes) == minutes * 60

UserIds == {"admin", "t1", "t2", "s1", "s2"}
DestIds == {1}
PeriodIds == {1, 2}

Max(a, b) == IF a >= b THEN a ELSE b

SeqToSet(s) == {s[i] : i \in 1..Len(s)}

-----------------------------------------------------------------------------
(* Roles of the acting user *)

is_admin(u) == users[u].role = "Admin"
is_teacher(u) == users[u].role = "Teacher"
is_student(u) == users[u].role = "Student"

get_setting(key, default) ==
    IF key \in DOMAIN settings THEN settings[key] ELSE default

-----------------------------------------------------------------------------
(* ClassPeriod.is_now_in_window.  A stored "HH:MM" string is a sequence of  *)
(* one-character strings; the empty sequence stands for None and for "".    *)

Digits == <<"0", "1", "2", "3", "4", "5", "6", "7", "8", "9">>

IsDigit(c) == \E i \in 1..Len(Digits) : Digits[i] = c

DigitVal(c) == (CHOOSE i \in 1..Len(Digits) : Digits[i] = c) - 1

\* str.split(sep): the parts of s between the occurrences of sep
RECURSIVE Split(_, _)
Split(s, sep) ==
    IF \E i \in 1..Len(s) : s[i] = sep
    THEN LET i == CHOOSE j \in 1..Len(s) :
                      s[j] = sep /\ \A k \in 1..(j - 1) : s[k] # sep
         IN  <<SubSeq(s, 1, i - 1)>> \o Split(SubSeq(s, i + 1, Len(s)), sep)
    ELSE <<s>>

RECURSIVE DigitsValue(_)
DigitsValue(s) ==
    IF s = <<>> THEN 0
    ELSE 10 * DigitsValue(SubSeq(s, 1, Len(s) - 1)) + DigitVal(s[Len(s)])

\* int(x) on a string: an optional sign and at least one digit, anything
\* else raises ValueError
IntOk(s) ==
    LET body == IF s # <<>> /\ s[1] \in {"-", "+"} THEN Tail(s) ELSE s
    IN  body # <<>> /\ \A i \in 1..Len(body) : IsDigit(body[i])

IntOf(s) ==
    IF s[1] = "-" THEN 0 - DigitsValue(Tail(s))
    ELSE IF s[1] = "+" THEN DigitsValue(Tail(s))
    ELSE DigitsValue(s)

\* sh, sm = [int(x) for x in t.split(":")] succeeds
ParsesHM(t) ==
    LET parts == Split(t, ":")
    IN  Len(parts) = 2 /\ IntOk(parts[1]) /\ IntOk(parts[2])

MinutesOf(t) ==
    LET parts == Split(t, ":")
    IN  IntOf(parts[1]) * 60 + IntOf(parts[2])

\* now.hour * 60 + now.minute
now_minutes(t) == (t % 86400) \div 60

\* now.weekday(), Monday = 0
weekday(t) == (t \div 86400) % 7

\* the window closed at its end minute: start <= now < end
is_now_in_window_exclusive(cp, t) ==
    IF cp.start_time = <<>> \/ cp.end_time = <<>> THEN TRUE
    ELSE IF ~(ParsesHM(cp.start_time) /\ ParsesHM(cp.end_time)) THEN TRUE
    ELSE LET in_time == /\ MinutesOf(cp.start_time) <= now_minutes(t)
                        /\ now_minutes(t) < MinutesOf(cp.end_time)
         IN  IF cp.days_mask # <<>> /\ Len(cp.days_mask) = 7
             THEN in_time /\ cp.days_mask[weekday(t) + 1] = "1"
             ELSE in_time

is_now_in_window(cp, t) ==
    IF cp.start_time = <<>> \/ cp.end_time = <<>> THEN TRUE
    ELSE IF ~(ParsesHM(cp.start_time) /\ ParsesHM(cp.end_time)) THEN TRUE
    ELSE LET in_time == /\ MinutesOf(cp.start_time) <= now_minutes(t)
                        /\ now_minutes(t) <= MinutesOf(cp.end_time)
         IN  IF cp.days_mask # <<>> /\ Len(cp.days_mask) = 7
             THEN in_time /\ cp.days_mask[weekday(t) + 1] = "1"
             ELSE in_time

-----------------------------------------------------------------------------
(* request_pass: which teacher a request goes to *)

NoPeriod == 1 - 1
NoTarget == [teacher |-> NoUser, cp |-> NoPeriod]

\* the kiosk of the token, whatever its active flag
KioskOfAnyState(token) ==
    IF token = NoToken THEN {}
    ELSE {k \in kiosks : k.token = token}

\* Kiosk.query.filter_by(token=kiosk_token, is_active=1).first()
KioskOf(token) ==
    IF token = NoToken THEN {}
    ELSE {k \in kiosks : k.token = token /\ k.is_active = 1}

is_kiosk(token) == KioskOf(token) # {}

kiosk_cp_id(token) ==
    IF \E k \in KioskOf(token) : k.class_period_id # NoPeriod
    THEN (CHOOSE k \in KioskOf(token) : k.class_period_id # NoPeriod).class_period_id
    ELSE NoPeriod

kiosk_teacher_id(token) ==
    IF \E k \in KioskOf(token) : k.class_period_id = NoPeriod /\ k.teacher_id # NoUser
    THEN (CHOOSE k \in KioskOf(token) :
              k.class_period_id = NoPeriod /\ k.teacher_id # NoUser).teacher_id
    ELSE NoUser

\* steps 1 and 2: the kiosk's class period, else the kiosk's teacher
KioskTarget(token) ==
    IF kiosk_cp_id(token) # NoPeriod
    THEN IF kiosk_cp_id(token) \in DOMAIN periods
         THEN [teacher |-> periods[kiosk_cp_id(token)].teacher_id,
               cp |-> kiosk_cp_id(token)]
         ELSE NoTarget
    ELSE IF kiosk_teacher_id(token) # NoUser /\ kiosk_teacher_id(token) \in DOMAIN users
         THEN [teacher |-> kiosk_teacher_id(token), cp |-> NoPeriod]
         ELSE NoTarget

HasActiveEnrollment(student, cp_id) ==
    \E e \in enrollments :
        e.student_id = student /\ e.class_period_id = cp_id /\ e.is_active = 1

\* the enrollments joined to the periods only: any period, any owner
enrolled_periods_unfiltered(student) ==
    {p \in DOMAIN periods : HasActiveEnrollment(student, p)}

\* active enrollments in active periods of active users with the Teacher role
enrolled_periods(student) ==
    {p \in DOMAIN periods :
        /\ HasActiveEnrollment(student, p)
        /\ periods[p].is_active = 1
        /\ periods[p].teacher_id \in DOMAIN users
        /\ users[periods[p].teacher_id].role = "Teacher"
        /\ users[periods[p].teacher_id].is_active_flag = 1}

unique_teachers(student) == {periods[p].teacher_id : p \in enrolled_periods(student)}

\* enrolled_periods[0] of a query with no ORDER BY: any of its rows
FirstChoices(student) ==
    IF enrolled_periods(student) = {} THEN {NoPeriod} ELSE enrolled_periods(student)

\* the owner of the first enrolled period, however many owners there are
InferFromFirst(student, cur, first) ==
    IF cur.teacher # NoUser THEN cur
    ELSE IF first # NoPeriod
         THEN [teacher |-> periods[first].teacher_id, cp |-> first]
         ELSE cur

\* step 3: the one teacher of the student's enrollments, if there is exactly one
Infer(student, cur, first) ==
    IF cur.teacher # NoUser THEN cur
    ELSE IF Cardinality(unique_teachers(student)) = 1
         THEN [teacher |-> CHOOSE t \in unique_teachers(student) : TRUE, cp |-> first]
         ELSE cur

\* the chosen class period taken as context under the teacher found so far
ExplicitKeepsTeacher(student, sel_cp_id, cur) ==
    IF /\ sel_cp_id # NoPeriod
       /\ sel_cp_id \in DOMAIN periods
       /\ HasActiveEnrollment(student, sel_cp_id)
    THEN [teacher |-> IF cur.teacher # NoUser THEN cur.teacher
                      ELSE periods[sel_cp_id].teacher_id,
          cp |-> sel_cp_id]
    ELSE cur

\* the class period chosen in the form, whoever is enrolled in it
ExplicitUnchecked(student, sel_cp_id, cur) ==
    IF sel_cp_id # NoPeriod /\ sel_cp_id \in DOMAIN periods
    THEN [teacher |-> periods[sel_cp_id].teacher_id, cp |-> sel_cp_id]
    ELSE cur

\* the class period chosen in the form, if the student is enrolled in it
Explicit(student, sel_cp_id, cur) ==
    IF /\ sel_cp_id # NoPeriod
       /\ sel_cp_id \in DOMAIN periods
       /\ HasActiveEnrollment(student, sel_cp_id)
    THEN [teacher |-> periods[sel_cp_id].teacher_id, cp |-> sel_cp_id]
    ELSE cur

kiosk_strict == get_setting("kiosk_strict_binding", "true") = "true"
enforce_window == get_setting("enforce_period_time_window", "false") = "true"
allow_outside == get_setting("allow_teacher_approval_outside_period", "true") = "true"

\* strict binding applied only to a kiosk bound to a class period
StrictKioskPeriodOnly(token) ==
    /\ kiosk_strict
    /\ is_kiosk(token)
    /\ kiosk_cp_id(token) # NoPeriod

StrictKiosk(token) ==
    /\ kiosk_strict
    /\ is_kiosk(token)
    /\ (kiosk_cp_id(token) # NoPeriod \/ kiosk_teacher_id(token) # NoUser)

\* the enrollments consulted before the kiosk
ResolveEnrollmentFirst(student, token, sel_cp_id, first) ==
    LET inferred == Infer(student, NoTarget, first)
        pre == IF inferred.teacher # NoUser THEN inferred ELSE KioskTarget(token)
    IN  IF StrictKiosk(token) THEN pre
        ELSE Infer(student, Explicit(student, sel_cp_id, pre), first)

\* target_teacher_id and selected_cp of a POST
Resolve(student, token, sel_cp_id, first) ==
    LET pre == Infer(student, KioskTarget(token), first)
    IN  IF StrictKiosk(token) THEN pre
        ELSE Infer(student, Explicit(student, sel_cp_id, pre), first)

-----------------------------------------------------------------------------
(* Rows and table constraints *)

\* the new row stamped with the time of the request
PassStamped(student, dest) ==
    [student_id |-> student, destination_id |-> dest, state |-> PENDING,
     issued_at |-> now, expires_at |-> NULL]

Pass(student, dest) ==
    [student_id |-> student, destination_id |-> dest,
     issued_at |-> NULL, expires_at |-> NULL, state |-> PENDING]

PassAssignment(pid, teacher) == [pass_id |-> pid, teacher_id |-> teacher]

Override(pid, by, prev, new, reason) ==
    [pass_id |-> pid, performed_by_id |-> by,
     previous_expires_at |-> prev, new_expires_at |-> new, reason |-> reason]

\* LogEntry.message: the text, and for pass_requested the parts it is built of
Msg(text) == [text |-> text, teacher |-> NoUser, kiosk |-> NoToken, period |-> NoPeriod]

LogEntry(actor, action, target_type, target_id, message) ==
    [actor_id |-> actor, action |-> action, target_type |-> target_type,
     target_id |-> target_id, message |-> message]

\* the constraint written with >= : a deadline equal to the issue time passes
ck_pass_time_order_ge(p) ==
    \/ p.issued_at = NULL
    \/ p.expires_at = NULL
    \/ p.expires_at >= p.issued_at

\* CHECK ((issued_at IS NULL AND expires_at IS NULL) OR (expires_at > issued_at)):
\* a row is refused only when the condition is false, not when it is unknown
ck_pass_time_order(p) ==
    \/ p.issued_at = NULL
    \/ p.expires_at = NULL
    \/ p.expires_at > p.issued_at

\* the table without the unique constraint
uq_pass_teacher_absent(asg) == TRUE

\* UNIQUE (pass_id, teacher_id)
uq_pass_teacher(asg) ==
    \A i, j \in 1..Len(asg) : asg[i] = asg[j] => i = j

\* overrides.previous_expires_at and new_expires_at are NOT NULL
overrides_not_null(ov) ==
    \A i \in 1..Len(ov) :
        ov[i].previous_expires_at # NULL /\ ov[i].new_expires_at # NULL

\* db.session.commit() succeeds
CommitOk(ps, asg, ov) ==
    /\ \A i \in 1..Len(ps) : ck_pass_time_order(ps[i])
    /\ uq_pass_teacher(asg)
    /\ overrides_not_null(ov)

PassIds == 1..Len(passes)

\* PassAssignment.query.filter_by(pass_id=pid, teacher_id=teacher).first()
AssignedIn(asg, pid, teacher) ==
    \E i \in 1..Len(asg) : asg[i].pass_id = pid /\ asg[i].teacher_id = teacher

IsAssigned(pid, teacher) == AssignedIn(assignments, pid, teacher)

\* the ids of a set in ascending order
RECURSIVE Ascending(_)
Ascending(S) ==
    IF S = {} THEN <<>>
    ELSE LET m == CHOOSE x \in S : \A y \in S : x <= y
         IN  <<m>> \o Ascending(S \ {m})

\* Pass.mark_expired_if_needed at time t
mark_expired_if_needed(p, t) ==
    IF p.state = ACTIVE /\ p.expires_at # NULL /\ t >= p.expires_at
    THEN [p EXCEPT !.state = EXPIRED]
    ELSE p

\* the difference returned without the max(0, ...)
remaining_seconds_unclamped(p, t) ==
    IF p.state # ACTIVE \/ p.expires_at = NULL THEN 0
    ELSE p.expires_at - t

\* Pass.remaining_seconds at time t
remaining_seconds(p, t) ==
    IF p.state # ACTIVE \/ p.expires_at = NULL THEN 0
    ELSE Max(0, p.expires_at - t)

-----------------------------------------------------------------------------
(* Responses *)

\* what was asked (the handler, the add_minutes field of an override form) and
\* what came back (the flashed message or, for a listing, the template rendered,
\* the rows listed and the time they were taken at)
NoResp == [op |-> "", minutes |-> 0, flash |-> "", rows |-> {}, at |-> NULL]

Resp(op, actor, pid, flash) ==
    [op |-> op, minutes |-> 0, flash |-> flash, rows |-> {}, at |-> NULL]

\* an unhandled exception: HTTP 500, nothing committed
ServerError == "500"

Row(pid, t) ==
    [id |-> pid, state |-> passes[pid].state, issued_at |-> passes[pid].issued_at,
     expires_at |-> passes[pid].expires_at,
     remaining_seconds |-> remaining_seconds(passes[pid], t)]

\* the row without the max(0, ...)
to_row_unclamped(pid, t) ==
    [id |-> pid, state |-> passes[pid].state, issued_at |-> passes[pid].issued_at,
     expires_at |-> passes[pid].expires_at,
     remaining_seconds |-> IF passes[pid].expires_at # NULL
                           THEN passes[pid].expires_at - t
                           ELSE 0]

\* to_row of the kiosk data: remaining is 0 unless expires_at is set, and then
\* max(0, expires_at - now) for the now taken before the query; state is the
\* state the query selected the pass by
to_row(pid, t) ==
    [id |-> pid, state |-> passes[pid].state, issued_at |-> passes[pid].issued_at,
     expires_at |-> passes[pid].expires_at,
     remaining_seconds |-> IF passes[pid].expires_at # NULL
                           THEN Max(0, passes[pid].expires_at - t)
                           ELSE 0]

LoggedIn(u) == u \in DOMAIN users /\ users[u].is_active_flag = 1

\* requests are handled one at a time: the next one is taken up once the
\* response to the previous one has been delivered
Idle == resp = NoResp

\* the handlers whose reads and writes are followed one by one
Handlers == {"approve", "approve2", "deny"}

\* the two requests to approve that can be under way together
ApproveHandlers == {"approve", "approve2"}

NoSession == [u |-> NoUser, pid |-> 0, p |-> NULL, assigned |-> FALSE, flash |-> ""]
NoInflight == [h \in Handlers |-> NoSession]

Deliver ==
    /\ resp # NoResp
    /\ resp' = NoResp
    /\ UNCHANGED <<now, tables, config, inflight>>

-----------------------------------------------------------------------------
(* The initial store: the seeded users, destination, class periods,         *)
(* enrollments and kiosks, and the seed's example pass, approved at the     *)
(* start; a second teacher and a second student have been added.            *)

Chars(a, b, c, d, e) == <<a, b, c, d, e>>

InitUsers ==
    [u \in UserIds |->
        [role |-> IF u = "admin" THEN "Admin"
                  ELSE IF u \in {"t1", "t2"} THEN "Teacher" ELSE "Student",
         is_active_flag |-> 1]]

InitPeriods ==
    [p \in PeriodIds |->
        IF p = 1
        THEN [teacher_id |-> "t1",
              start_time |-> Chars("1", "0", ":", "0", "0"),
              end_time |-> Chars("1", "0", ":", "0", "4"),
              days_mask |-> <<"1", "1", "1", "1", "1", "0", "0">>,
              is_active |-> 1]
        ELSE [teacher_id |-> "t2", start_time |-> <<>>, end_time |-> <<>>,
              days_mask |-> <<>>, is_active |-> 1]]

InitEnrollments ==
    {[student_id |-> "s1", class_period_id |-> 1, is_active |-> 1],
     [student_id |-> "s2", class_period_id |-> 2, is_active |-> 0]}

InitKiosks ==
    {[token |-> "K1", class_period_id |-> 1, teacher_id |-> "t1", is_active |-> 1],
     [token |-> "K2", class_period_id |-> NoPeriod, teacher_id |-> "t2", is_active |-> 1]}

\* Restroom, 5 minutes
InitDestinations == [d \in DestIds |-> 5]

SettingKeys == {"kiosk_strict_binding", "enforce_period_time_window",
                "allow_teacher_approval_outside_period"}

\* no row for any of the keys: every setting has its default
InitSettings == {[k \in {} |-> ""]}

Init ==
    /\ now = StartOfDay
    /\ passes = <<[Pass("s1", 1) EXCEPT !.issued_at = StartOfDay,
                                         !.expires_at = StartOfDay + Seconds(InitDestinations[1]),
                                         !.state = ACTIVE]>>
    /\ assignments = <<PassAssignment(1, "t1")>>
    /\ overrides = <<>>
    /\ logs = <<LogEntry("t1", "pass_issued", "pass", 1, Msg("Issued"))>>
    /\ destinations = InitDestinations
    /\ users = InitUsers
    /\ periods = InitPeriods
    /\ enrollments = InitEnrollments
    /\ kiosks = InitKiosks
    /\ settings \in InitSettings
    /\ resp = NoResp
    /\ inflight = NoInflight

-----------------------------------------------------------------------------
(* Inputs of the requests *)

TokenInputs == {NoToken}
DestInputs == DestIds \cup {0}
PeriodInputs == PeriodIds \cup {NoPeriod}
MinutesInputs == {0 - 5, 0, 10}
DefaultMinutesInputs == {0 - 5, 0, 10}
Reasons == {"medical"}

-----------------------------------------------------------------------------
(* Time passes *)

Tick ==
    /\ Idle
    /\ now + ClockStep <= StartOfDay + MaxTicks * ClockStep
    /\ now' = now + ClockStep
    /\ UNCHANGED <<tables, config, resp, inflight>>

-----------------------------------------------------------------------------
(* POST /passes/request *)

RequestMsg(teacher, token, cp) ==
    [text |-> "to_teacher", teacher |-> teacher, kiosk |-> token, period |-> cp]

Requested == "Pass requested. Awaiting teacher approval."

\* the window applied to requests only when approval outside it is not allowed
RequestOutcomeUnlessAllowed(u, token, dest_id, sel_cp_id, first) ==
    LET target == Resolve(u, token, sel_cp_id, first)
    IN  IF ~is_student(u)
        THEN "Only students can request passes."
        ELSE IF dest_id \notin DOMAIN destinations
        THEN "Invalid destination."
        ELSE IF target.teacher = NoUser
        THEN "Please select a class period (or use a kiosk)."
        ELSE IF /\ enforce_window
                /\ ~allow_outside
                /\ target.cp # NoPeriod
                /\ ~is_now_in_window(periods[target.cp], now)
        THEN "Requests are restricted outside the class period time window."
        ELSE Requested

\* the destination looked up after the pass is built, and never checked
RequestOutcomeAnyDestination(u, token, dest_id, sel_cp_id, first) ==
    LET target == Resolve(u, token, sel_cp_id, first)
    IN  IF ~is_student(u)
        THEN "Only students can request passes."
        ELSE IF target.teacher = NoUser
        THEN "Please select a class period (or use a kiosk)."
        ELSE IF /\ enforce_window
                /\ target.cp # NoPeriod
                /\ ~is_now_in_window(periods[target.cp], now)
        THEN "Requests are restricted outside the class period time window."
        ELSE Requested

\* the message a POST ends with: the first check that fails, else success
RequestOutcome(u, token, dest_id, sel_cp_id, first) ==
    LET target == Resolve(u, token, sel_cp_id, first)
    IN  IF ~is_student(u)
        THEN "Only students can request passes."
        ELSE IF dest_id \notin DOMAIN destinations
        THEN "Invalid destination."
        ELSE IF target.teacher = NoUser
        THEN "Please select a class period (or use a kiosk)."
        ELSE IF /\ enforce_window
                /\ target.cp # NoPeriod
                /\ ~is_now_in_window(periods[target.cp], now)
        THEN "Requests are restricted outside the class period time window."
        ELSE Requested

request_pass(u, token, dest_id, sel_cp_id, first) ==
    LET target == Resolve(u, token, sel_cp_id, first)
        pid == Len(passes) + 1
        outcome == RequestOutcome(u, token, dest_id, sel_cp_id, first)
        reject(flash) ==
            /\ resp' = Resp("request_pass", u, 0, flash)
            /\ UNCHANGED tables
    IN  /\ Idle /\ LoggedIn(u)
        /\ IF outcome # Requested
           THEN reject(outcome)
           ELSE /\ Len(passes) < MaxPasses
                /\ Len(logs) < MaxLogs
                /\ passes' = Append(passes, Pass(u, dest_id))
                /\ assignments' = Append(assignments, PassAssignment(pid, target.teacher))
                /\ logs' = Append(logs, LogEntry(u, "pass_requested", "pass", pid,
                                                 RequestMsg(target.teacher, token, target.cp)))
                /\ resp' = Resp("request_pass", u, pid, Requested)
                /\ UNCHANGED overrides
        /\ UNCHANGED <<now, config, inflight>>

-----------------------------------------------------------------------------
(* POST /passes/approve/<pass_id> *)

\* the ids of the passes there are, and one id of no pass
PassIdInputs == 1..(Len(passes) + 1)

\* periods of a teacher in which a student holds an active enrollment
StudentPeriodsOf(student, teacher) ==
    {p \in DOMAIN periods :
        HasActiveEnrollment(student, p) /\ periods[p].teacher_id = teacher}

\* .first() of a query with no ORDER BY: any of its rows, None when it has none
FirstOf(S) == IF S = {} THEN {NoPeriod} ELSE S

AssignedTeachers(pid) ==
    {assignments[i].teacher_id : i \in {j \in 1..Len(assignments) :
        assignments[j].pass_id = pid /\ assignments[j].teacher_id \in DOMAIN users}}

\* the values selected_cp can take in approve
ApproveCpChoices(u, pid) ==
    IF ~enforce_window \/ pid \notin PassIds THEN {NoPeriod}
    ELSE IF is_teacher(u)
    THEN IF \E p \in DOMAIN periods : periods[p].teacher_id = u /\ periods[p].is_active = 1
         THEN FirstOf(StudentPeriodsOf(passes[pid].student_id, u))
         ELSE {NoPeriod}
    ELSE IF is_admin(u)
    THEN IF AssignedTeachers(pid) = {} THEN {NoPeriod}
         ELSE UNION {FirstOf(StudentPeriodsOf(passes[pid].student_id, t)) :
                        t \in AssignedTeachers(pid)}
    ELSE {NoPeriod}

default_minutes(dest_id) ==
    IF dest_id \in DOMAIN destinations THEN destinations[dest_id] ELSE 5

\* the state set on approval without the two instants
StartTimerStateOnly(p, t) == [p EXCEPT !.state = ACTIVE]

\* the default minutes added as seconds
StartTimerInSeconds(p, t) ==
    [p EXCEPT !.issued_at = t,
              !.expires_at = t + default_minutes(p.destination_id),
              !.state = ACTIVE]

\* the timer starts: issued now, expires after the destination's default minutes
StartTimer(p, t) ==
    [p EXCEPT !.issued_at = t,
              !.expires_at = t + Seconds(default_minutes(p.destination_id)),
              !.state = ACTIVE]

\* the timer restarted on every approval
ApprovedPassRestarted(p, t) ==
    [p EXCEPT !.issued_at = t,
              !.expires_at = t + Seconds(default_minutes(p.destination_id)),
              !.state = ACTIVE]

\* on approval: if pending, start the timer from now and set active
ApprovedPass(p, t) == IF p.state = PENDING THEN StartTimer(p, t) ELSE p

\* track staff: the approver is added unless already assigned
TrackStaff(asg, pid, u) ==
    IF AssignedIn(asg, pid, u)
    THEN asg
    ELSE Append(asg, PassAssignment(pid, u))

\* the states approve accepts
Approvable(p) == p.state \in {PENDING, ACTIVE}

\* selected_cp and not selected_cp.is_now_in_window(utcnow), under enforcement
OutOfWindow(selected_cp) ==
    /\ enforce_window
    /\ selected_cp # NoPeriod
    /\ ~is_now_in_window(periods[selected_cp], now)

\* an approval outside the window blocked whatever the setting says
BlockedWheneverOutside(selected_cp) == OutOfWindow(selected_cp)

\* the approval is blocked: outside the window and not allowed outside
Blocked(selected_cp) == OutOfWindow(selected_cp) /\ ~allow_outside

Approved == "Approved"
ApprovedWithWarning == "Warning: approving outside class period time window."
ApprovalBlocked == "Approval blocked: outside class period time window."

\* an approval outside the window let through with the warning in every mode
ApproveOutcomeWarnOnly(u, pid, selected_cp) ==
    IF ~(is_teacher(u) \/ is_admin(u))
    THEN "Teacher/Admin required to approve."
    ELSE IF pid \notin PassIds \/ ~Approvable(passes[pid])
    THEN "Pass not found or not in approvable state."
    ELSE IF OutOfWindow(selected_cp)
    THEN ApprovedWithWarning
    ELSE Approved

\* the message a POST ends with when its commit succeeds: the first check
\* that fails, else the approval, with the warning when outside the window
ApproveOutcome(u, pid, selected_cp) ==
    IF ~(is_teacher(u) \/ is_admin(u))
    THEN "Teacher/Admin required to approve."
    ELSE IF pid \notin PassIds \/ ~Approvable(passes[pid])
    THEN "Pass not found or not in approvable state."
    ELSE IF Blocked(selected_cp)
    THEN ApprovalBlocked
    ELSE IF OutOfWindow(selected_cp)
    THEN ApprovedWithWarning
    ELSE Approved

approve(u, pid, selected_cp) ==
    LET reject(flash) ==
            /\ resp' = Resp("approve", u, pid, flash)
            /\ UNCHANGED tables
        outcome == ApproveOutcome(u, pid, selected_cp)
    IN  /\ Idle /\ LoggedIn(u)
        /\ selected_cp \in ApproveCpChoices(u, pid)
        /\ IF outcome \notin {Approved, ApprovedWithWarning}
           THEN reject(outcome)
           ELSE LET ps == [passes EXCEPT ![pid] = ApprovedPass(passes[pid], now)]
                    asg == TrackStaff(assignments, pid, u)
                IN  IF ~CommitOk(ps, asg, overrides)
                    THEN reject(ServerError)
                    ELSE /\ Len(logs) < MaxLogs
                         /\ passes' = ps
                         /\ assignments' = asg
                         /\ logs' = Append(logs, LogEntry(u, "pass_approved", "pass", pid,
                                                          Msg("approved")))
                         /\ resp' = Resp("approve", u, pid, outcome)
                         /\ UNCHANGED overrides
        /\ UNCHANGED <<now, config, inflight>>

-----------------------------------------------------------------------------
(* POST /passes/deny/<pass_id> *)

\* deny refusing only a pass that is already denied
DeniableUnlessDenied(p) == p.state # DENIED

\* only pending passes can be denied
Deniable(p) == p.state = PENDING

deny(u, pid) ==
    LET reject(flash) ==
            /\ resp' = Resp("deny", u, pid, flash)
            /\ UNCHANGED tables
    IN  /\ Idle /\ LoggedIn(u)
        /\ IF ~(is_teacher(u) \/ is_admin(u))
           THEN reject("Teacher/Admin required to deny.")
           ELSE IF pid \notin PassIds
           THEN reject("Pass not found.")
           ELSE IF ~Deniable(passes[pid])
           THEN reject("Only pending passes can be denied.")
           ELSE /\ Len(logs) < MaxLogs
                /\ passes' = [passes EXCEPT ![pid].state = DENIED]
                /\ logs' = Append(logs, LogEntry(u, "pass_denied", "pass", pid, Msg("")))
                /\ resp' = Resp("deny", u, pid, "Denied")
                /\ UNCHANGED <<assignments, overrides>>
        /\ UNCHANGED <<now, config, inflight>>

-----------------------------------------------------------------------------
(* POST /passes/cancel/<pass_id> *)

\* cancel refusing only a pass that is already cancelled
CancellableUnlessCancelled(p) == p.state # CANCELLED

\* the authorization check left out
MayCancelAnyone(u, p) == TRUE

\* students can cancel their own; teachers and admins can cancel any
MayCancel(u, p) == is_admin(u) \/ is_teacher(u) \/ p.student_id = u

\* the states cancel accepts
Cancellable(p) == p.state \notin {CANCELLED, EXPIRED, ARCHIVED, DENIED}

cancel(u, pid) ==
    LET reject(flash) ==
            /\ resp' = Resp("cancel", u, pid, flash)
            /\ UNCHANGED tables
    IN  /\ Idle /\ LoggedIn(u)
        /\ IF pid \notin PassIds
           THEN reject("Pass not found.")
           ELSE IF ~MayCancel(u, passes[pid])
           THEN reject("Not authorized.")
           ELSE IF ~Cancellable(passes[pid])
           THEN reject("Pass is not active.")
           ELSE /\ Len(logs) < MaxLogs
                /\ passes' = [passes EXCEPT ![pid].state = CANCELLED]
                /\ logs' = Append(logs, LogEntry(u, "pass_cancelled", "pass", pid, Msg("")))
                /\ resp' = Resp("cancel", u, pid, "Pass cancelled.")
                /\ UNCHANGED <<assignments, overrides>>
        /\ UNCHANGED <<now, config, inflight>>

-----------------------------------------------------------------------------
(* POST /passes/override/<pass_id> *)

override_action(u) == IF is_admin(u) THEN "override_admin" ELSE "override_teacher"

\* the minutes added as seconds
ExtendedInSeconds(p, minutes) == [p EXCEPT !.expires_at = p.expires_at + minutes]

\* p.expires_at + timedelta(minutes=minutes)
Extended(p, minutes) == [p EXCEPT !.expires_at = p.expires_at + Seconds(minutes)]

\* the previous deadline read after the pass was updated
record_after_update(ov, pid, by, prev, new, reason) ==
    Append(ov, Override(pid, by, new, new, reason))

\* one row kept per pass: the row of an earlier extension is overwritten
record_upsert(ov, pid, by, prev, new, reason) ==
    IF \E i \in 1..Len(ov) : ov[i].pass_id = pid
    THEN [i \in 1..Len(ov) |->
             IF ov[i].pass_id = pid THEN Override(pid, by, prev, new, reason) ELSE ov[i]]
    ELSE Append(ov, Override(pid, by, prev, new, reason))

\* db.session.add(Override(...)): a new row after the rows there are
record(ov, pid, by, prev, new, reason) ==
    Append(ov, Override(pid, by, prev, new, reason))

override(u, pid, minutes, reason) ==
    LET reject(flash) ==
            /\ resp' = [Resp("override", u, pid, flash) EXCEPT !.minutes = minutes]
            /\ UNCHANGED tables
    IN  /\ Idle /\ LoggedIn(u)
        /\ IF ~(is_teacher(u) \/ is_admin(u))
           THEN reject("Teacher/Admin required to override.")
           ELSE IF pid \notin PassIds
           THEN reject("Pass not found.")
           ELSE IF passes[pid].expires_at = NULL
           THEN reject(ServerError)   \* None + timedelta raises TypeError
           ELSE LET p == Extended(passes[pid], minutes)
                    ps == [passes EXCEPT ![pid] = p]
                    ov == record(overrides, pid, u, passes[pid].expires_at, p.expires_at,
                                 reason)
                IN  IF ~CommitOk(ps, assignments, ov)
                    THEN reject(ServerError)
                    ELSE /\ Len(logs) < MaxLogs
                         /\ passes' = ps
                         /\ overrides' = ov
                         /\ logs' = Append(logs, LogEntry(u, override_action(u), "pass", pid,
                                                          Msg(reason)))
                         /\ resp' = [Resp("override", u, pid,
                                          IF is_admin(u) THEN "Timer overridden."
                                          ELSE "Timer overridden. Warning logged.")
                                      EXCEPT !.minutes = minutes]
                         /\ UNCHANGED assignments
        /\ UNCHANGED <<now, config, inflight>>

-----------------------------------------------------------------------------
(* The batch operations of /passes/my-period *)

\* the passes a teacher's queries return: those assigned to the teacher;
\* an admin's queries return all
VisibleTo(u, pid) == is_teacher(u) => IsAssigned(pid, u)

\* the optional period filter: passes of the students enrolled in the period,
\* not applied when the period is unknown or has no active enrollment
PeriodStudents(period_id) ==
    IF period_id \in DOMAIN periods
    THEN {e.student_id : e \in {x \in enrollments :
              x.class_period_id = period_id /\ x.is_active = 1}}
    ELSE {}

InPeriod(period_id, pid) ==
    PeriodStudents(period_id) # {} => passes[pid].student_id \in PeriodStudents(period_id)

\* one log row per pass, in the order of the ids
BatchLog(u, action, ids, text) ==
    LET order == Ascending(ids)
    IN  [i \in 1..Len(order) |-> LogEntry(u, action, "pass", order[i], Msg(text))]

ApproveAllTargets(u, period_id) ==
    {pid \in PassIds :
        passes[pid].state = PENDING /\ VisibleTo(u, pid) /\ InPeriod(period_id, pid)}

my_period_approve_all(u, period_id) ==
    LET reject(flash) ==
            /\ resp' = Resp("my_period_approve_all", u, 0, flash)
            /\ UNCHANGED tables
        hit == ApproveAllTargets(u, period_id)
        ps == [pid \in PassIds |->
                  IF pid \in hit THEN StartTimer(passes[pid], now) ELSE passes[pid]]
    IN  /\ Idle /\ LoggedIn(u)
        /\ IF ~is_teacher(u) /\ ~is_admin(u)
           THEN reject("Teacher/Admin access required.")
           ELSE IF hit = {}
           THEN reject("No pending passes to approve.")
           ELSE IF ~CommitOk(ps, assignments, overrides)
           THEN reject(ServerError)
           ELSE /\ Len(logs) + Cardinality(hit) <= MaxLogs
                /\ passes' = ps
                /\ logs' = logs \o BatchLog(u, "pass_approved", hit, "batch")
                /\ resp' = Resp("my_period_approve_all", u, 0, "Approved pending pass(es).")
                /\ UNCHANGED <<assignments, overrides>>
        /\ UNCHANGED <<now, config, inflight>>

SelectedTargets(u, ids, state) ==
    {pid \in PassIds \cap ids : passes[pid].state = state /\ VisibleTo(u, pid)}

my_period_deny_selected(u, ids) ==
    LET reject(flash) ==
            /\ resp' = Resp("my_period_deny_selected", u, 0, flash)
            /\ UNCHANGED tables
        hit == SelectedTargets(u, ids, PENDING)
    IN  /\ Idle /\ LoggedIn(u)
        /\ IF ~is_teacher(u) /\ ~is_admin(u)
           THEN reject("Teacher/Admin access required.")
           ELSE IF ids = {}
           THEN reject("No passes selected.")
           ELSE IF hit = {}
           THEN reject("No pending passes in selection.")
           ELSE /\ Len(logs) + Cardinality(hit) <= MaxLogs
                /\ passes' = [pid \in PassIds |->
                                 IF pid \in hit
                                 THEN [passes[pid] EXCEPT !.state = DENIED]
                                 ELSE passes[pid]]
                /\ logs' = logs \o BatchLog(u, "pass_denied", hit, "batch")
                /\ resp' = Resp("my_period_deny_selected", u, 0, "Denied pass(es).")
                /\ UNCHANGED <<assignments, overrides>>
        /\ UNCHANGED <<now, config, inflight>>

my_period_cancel_selected(u, ids) ==
    LET reject(flash) ==
            /\ resp' = Resp("my_period_cancel_selected", u, 0, flash)
            /\ UNCHANGED tables
        hit == SelectedTargets(u, ids, ACTIVE)
    IN  /\ Idle /\ LoggedIn(u)
        /\ IF ~is_teacher(u) /\ ~is_admin(u)
           THEN reject("Teacher/Admin access required.")
           ELSE IF ids = {}
           THEN reject("No passes selected.")
           ELSE IF hit = {}
           THEN reject("No active passes in selection.")
           ELSE /\ Len(logs) + Cardinality(hit) <= MaxLogs
                /\ passes' = [pid \in PassIds |->
                                 IF pid \in hit
                                 THEN [passes[pid] EXCEPT !.state = CANCELLED]
                                 ELSE passes[pid]]
                /\ logs' = logs \o BatchLog(u, "pass_cancelled", hit, "batch")
                /\ resp' = Resp("my_period_cancel_selected", u, 0, "Cancelled pass(es).")
                /\ UNCHANGED <<assignments, overrides>>
        /\ UNCHANGED <<now, config, inflight>>

\* the active passes of the selection that have a deadline
OverrideTargets(u, ids) ==
    {pid \in SelectedTargets(u, ids, ACTIVE) : passes[pid].expires_at # NULL}

\* the loop over the selected passes: one row recorded for each
RECURSIVE RecordEach(_, _, _, _, _)
RecordEach(ov, order, u, ps, reason) ==
    IF order = <<>> THEN ov
    ELSE RecordEach(record(ov, Head(order), u, passes[Head(order)].expires_at,
                           ps[Head(order)].expires_at, reason),
                    Tail(order), u, ps, reason)

my_period_override_selected(u, ids, add_minutes, reason) ==
    LET reject(flash) ==
            /\ resp' = [Resp("my_period_override_selected", u, 0, flash)
                         EXCEPT !.minutes = add_minutes]
            /\ UNCHANGED tables
        hit == OverrideTargets(u, ids)
        order == Ascending(hit)
        ps == [pid \in PassIds |->
                  IF pid \in hit THEN Extended(passes[pid], add_minutes) ELSE passes[pid]]
        ov == RecordEach(overrides, order, u, ps, reason)
    IN  /\ Idle /\ LoggedIn(u)
        /\ IF ~is_teacher(u) /\ ~is_admin(u)
           THEN reject("Teacher/Admin access required.")
           ELSE IF ids = {} \/ add_minutes <= 0
           THEN reject("Select passes and specify minutes > 0.")
           ELSE IF hit = {}
           THEN reject("No active passes in selection.")
           ELSE IF ~CommitOk(ps, assignments, ov)
           THEN reject(ServerError)
           ELSE /\ Len(logs) + Cardinality(hit) <= MaxLogs
                /\ passes' = ps
                /\ overrides' = ov
                /\ logs' = logs \o BatchLog(u, override_action(u), hit, reason)
                /\ resp' = [Resp("my_period_override_selected", u, 0,
                                  "Overridden pass(es).")
                             EXCEPT !.minutes = add_minutes]
                /\ UNCHANGED assignments
        /\ UNCHANGED <<now, config, inflight>>

-----------------------------------------------------------------------------
(* The listings *)

Listing(op, template, ids, t) ==
    [op |-> op, minutes |-> 0, flash |-> template,
     rows |-> {Row(pid, t) : pid \in ids}, at |-> t]

\* the sweep missing the pass whose deadline is exactly now
IsStaleStrictly(p, t) == p.state = ACTIVE /\ p.expires_at # NULL /\ p.expires_at < t

\* the sweep of index: the active passes whose deadline has passed
IsStale(p, t) == p.state = ACTIVE /\ p.expires_at # NULL /\ p.expires_at <= t

\* the listing without the sweep
StaleNone(t) == {}

Stale(t) == {pid \in PassIds : IsStale(passes[pid], t)}

Swept(t) ==
    [pid \in PassIds |->
        IF pid \in Stale(t) THEN [passes[pid] EXCEPT !.state = EXPIRED] ELSE passes[pid]]

\* the sweep writing no audit row
SweepLogNone(u, t) == <<>>

\* one pass_auto_expired row for each pass the sweep expires
SweepLog(u, t) ==
    [i \in 1..Len(Ascending(Stale(t))) |->
        LogEntry(u, "pass_auto_expired", "pass", Ascending(Stale(t))[i],
                 Msg("expired by system"))]

\* GET /passes/ : staff get the sweep and then the pending and active passes,
\* a student gets the student's own passes; the log holds at most cap rows
index_capped(u, cap) ==
    /\ Idle /\ LoggedIn(u)
    /\ IF is_teacher(u) \/ is_admin(u)
       THEN /\ Len(logs) + Cardinality(Stale(now)) <= cap
            /\ passes' = Swept(now)
            /\ logs' = logs \o SweepLog(u, now)
            /\ resp' = [op |-> "index", minutes |-> 0, flash |-> "passes/index.html",
                        rows |-> {[id |-> pid, state |-> passes'[pid].state,
                                   issued_at |-> passes'[pid].issued_at,
                                   expires_at |-> passes'[pid].expires_at,
                                   remaining_seconds |->
                                       remaining_seconds(passes'[pid], now)] :
                                  pid \in {q \in PassIds :
                                      /\ passes'[q].state \in {PENDING, ACTIVE}
                                      /\ VisibleTo(u, q)}},
                        at |-> now]
            /\ UNCHANGED <<assignments, overrides>>
       ELSE /\ resp' = Listing("index", "passes/mine.html",
                               {pid \in PassIds : passes[pid].student_id = u}, now)
            /\ UNCHANGED tables
    /\ UNCHANGED <<now, config, inflight>>

index(u) == index_capped(u, MaxLogs)

\* GET /passes/my-period : the pending and active passes, with no sweep
my_period(u, period_id) ==
    /\ Idle /\ LoggedIn(u)
    /\ IF ~is_teacher(u) /\ ~is_admin(u)
       THEN resp' = Resp("my_period", u, 0, "Teacher/Admin access required.")
       ELSE resp' = Listing("my_period", "passes/my_period.html",
                            {pid \in PassIds :
                                /\ passes[pid].state \in {PENDING, ACTIVE}
                                /\ VisibleTo(u, pid)
                                /\ InPeriod(period_id, pid)}, now)
    /\ UNCHANGED <<now, tables, config, inflight>>

\* GET /kiosk/data : the active passes with their remaining seconds, no login
data ==
    /\ Idle
    /\ resp' = [op |-> "data", minutes |-> 0, flash |-> "json",
                rows |-> {to_row(pid, now) :
                             pid \in {q \in PassIds :
                                 /\ passes[q].state = ACTIVE
                                 /\ passes[q].destination_id \in DOMAIN destinations}},
                at |-> now]
    /\ UNCHANGED <<now, tables, config, inflight>>

-----------------------------------------------------------------------------
(* POST /admin/destinations/<dest_id>/update *)

destinations_update(u, dest_id, minutes) ==
    /\ Idle /\ LoggedIn(u)
    /\ IF ~is_admin(u)
       THEN /\ resp' = Resp("destinations_update", u, 0, "Admin access required.")
            /\ UNCHANGED <<destinations, logs>>
       ELSE IF dest_id \notin DOMAIN destinations
       THEN /\ resp' = Resp("destinations_update", u, 0, "Destination not found.")
            /\ UNCHANGED <<destinations, logs>>
       ELSE /\ Len(logs) < MaxLogs
            /\ destinations' = [destinations EXCEPT ![dest_id] = minutes]
            /\ logs' = Append(logs, LogEntry(u, "dest_updated", "destination", dest_id,
                                             Msg("")))
            /\ resp' = Resp("destinations_update", u, 0, "Destination updated.")
    /\ UNCHANGED <<now, passes, assignments, overrides, users, periods, enrollments,
                   kiosks, settings, inflight>>

-----------------------------------------------------------------------------

Next ==
    \/ Tick
    \/ Deliver
    \/ \E u \in UserIds, token \in TokenInputs, d \in DestInputs, cp \in PeriodInputs :
          \E first \in FirstChoices(u) : request_pass(u, token, d, cp, first)
    \/ \E u \in UserIds, pid \in PassIdInputs :
          \E cp \in ApproveCpChoices(u, pid) : approve(u, pid, cp)
    \/ \E u \in UserIds, pid \in PassIdInputs : deny(u, pid)
    \/ \E u \in UserIds, pid \in PassIdInputs : cancel(u, pid)
    \/ \E u \in UserIds, pid \in PassIdInputs, m \in MinutesInputs, r \in Reasons :
          override(u, pid, m, r)
    \/ \E u \in UserIds, cp \in PeriodInputs : my_period_approve_all(u, cp)
    \/ \E u \in UserIds, ids \in SUBSET PassIds : my_period_deny_selected(u, ids)
    \/ \E u \in UserIds, ids \in SUBSET PassIds : my_period_cancel_selected(u, ids)
    \/ \E u \in UserIds, ids \in SUBSET PassIds, m \in MinutesInputs, r \in Reasons :
          my_period_override_selected(u, ids, m, r)
    \/ \E u \in UserIds : index(u)
    \/ \E u \in UserIds, cp \in PeriodInputs : my_period(u, cp)
    \/ data
    \/ \E u \in UserIds, d \in DestInputs, m \in DefaultMinutesInputs :
          destinations_update(u, d, m)

Spec == Init /\ [][Next]_vars

-----------------------------------------------------------------------------
(* Requests under the configurations the admin pages and the settings table  *)
(* can hold: the second teacher's row with is_active_flag 0, the second      *)
(* period deactivated or given to the first teacher (periods_update), the    *)
(* first student enrolled, inactively enrolled (import) or not enrolled in   *)
(* each period, a third kiosk bound to the second period and toggled off,    *)
(* and kiosk_strict_binding stored as "false".                               *)

ResolveUsers ==
    {[InitUsers EXCEPT !["t2"].is_active_flag = a] : a \in {0, 1}}

ResolvePeriods ==
    {[InitPeriods EXCEPT ![2].is_active = a, ![2].teacher_id = t] :
        a \in {0, 1}, t \in {"t1", "t2"}}

EnrollmentOf(student, cp, kind) ==
    IF kind = "none" THEN {}
    ELSE {[student_id |-> student, class_period_id |-> cp,
           is_active |-> IF kind = "active" THEN 1 ELSE 0]}

ResolveEnrollments ==
    {EnrollmentOf("s1", 1, a) \cup EnrollmentOf("s1", 2, b) :
        a \in {"none", "inactive", "active"}, b \in {"none", "inactive", "active"}}

ResolveKiosks ==
    InitKiosks \cup
    {[token |-> "K3", class_period_id |-> 2, teacher_id |-> NoUser, is_active |-> 0]}

ResolveSettings ==
    InitSettings \cup {[k \in {"kiosk_strict_binding"} |-> "false"]}

\* the tokens of the kiosks there are, a token of no kiosk, and no token
KioskTokens == {k.token : k \in kiosks} \cup {"KX", NoToken}

InitResolve ==
    /\ now = StartOfDay
    /\ passes = <<[Pass("s1", 1) EXCEPT !.issued_at = StartOfDay,
                                         !.expires_at = StartOfDay + Seconds(InitDestinations[1]),
                                         !.state = ACTIVE]>>
    /\ assignments = <<PassAssignment(1, "t1")>>
    /\ overrides = <<>>
    /\ logs = <<LogEntry("t1", "pass_issued", "pass", 1, Msg("Issued"))>>
    /\ destinations = InitDestinations
    /\ users \in ResolveUsers
    /\ periods \in ResolvePeriods
    /\ enrollments \in ResolveEnrollments
    /\ kiosks = ResolveKiosks
    /\ settings \in ResolveSettings
    /\ resp = NoResp
    /\ inflight = NoInflight

NextResolve ==
    \/ Deliver
    \/ \E u \in UserIds, token \in KioskTokens, d \in DestInputs, cp \in PeriodInputs :
          \E first \in FirstChoices(u) : request_pass(u, token, d, cp, first)

SpecResolve == InitResolve /\ [][NextResolve]_vars

-----------------------------------------------------------------------------
(* Time windows: the schedule strings an administrator can store for a     *)
(* class period (any text is accepted), with the window enforced, at       *)
(* instants of a weekday and of a weekend day                               *)

WindowStarts ==
    {<<>>, Chars("1", "0", ":", "0", "0"), Chars("1", "0", ":", "0", "5"),
     Chars("2", "5", ":", "0", "0"), Chars("a", "b", ":", "c", "d"),
     <<"1", "0", "0", "0">>}

WindowEnds ==
    {<<>>, Chars("1", "0", ":", "0", "5"), Chars("0", "9", ":", "5", "9"),
     Chars("2", "6", ":", "0", "0"), <<"1", "0", ":", "0", "5", ":", "0", "0">>}

WindowMasks ==
    {<<>>, <<"1", "1", "1", "1", "1", "0", "0">>, <<"0", "1", "1", "1", "1", "1", "1">>,
     <<"0", "0", "0", "0", "0">>}

WindowPeriods ==
    {[InitPeriods EXCEPT ![1].start_time = s, ![1].end_time = e, ![1].days_mask = m] :
        s \in WindowStarts, e \in WindowEnds, m \in WindowMasks}

WindowSettings ==
    {[k \in {"enforce_period_time_window", "allow_teacher_approval_outside_period"} |->
         IF k = "enforce_period_time_window" THEN "true" ELSE a] : a \in {"true", "false"}}

\* ten o'clock and a half minute past on the first day of the week, ten
\* o'clock on the sixth
WindowInstants == {StartOfDay, StartOfDay + 30, StartOfDay + 5 * 86400}

InitWindow ==
    /\ now \in WindowInstants
    /\ passes = <<[Pass("s1", 1) EXCEPT !.issued_at = now,
                                         !.expires_at = now + Seconds(InitDestinations[1]),
                                         !.state = ACTIVE]>>
    /\ assignments = <<PassAssignment(1, "t1")>>
    /\ overrides = <<>>
    /\ logs = <<LogEntry("t1", "pass_issued", "pass", 1, Msg("Issued"))>>
    /\ destinations = InitDestinations
    /\ users = InitUsers
    /\ periods \in WindowPeriods
    /\ enrollments = InitEnrollments
    /\ kiosks = InitKiosks
    /\ settings \in WindowSettings
    /\ resp = NoResp
    /\ inflight = NoInflight

NextWindow ==
    \/ Deliver
    \/ Tick
    \/ \E u \in {"s1", "s2"}, d \in DOMAIN destinations :
          \E first \in FirstChoices(u) : request_pass(u, NoToken, d, NoPeriod, first)
    \/ \E u \in {"t1", "t2", "admin"}, pid \in PassIds :
          \E cp \in ApproveCpChoices(u, pid) : approve(u, pid, cp)
    \/ \E u \in {"t1", "t2", "admin"} : my_period_approve_all(u, NoPeriod)

SpecWindow == InitWindow /\ [][NextWindow]_vars

-----------------------------------------------------------------------------
(* Expiry on demand.  There is no scheduled job: an overdue pass stays       *)
(* Active until a teacher or admin opens the index.  Here the clock runs as  *)
(* long as an Active pass has its deadline ahead, the staff index is opened  *)
(* again and again, and the log leaves room for the rows of the sweeps on    *)
(* top of the rows of the other operations, whose number (and with it the    *)
(* number of extensions) is finite.                                          *)

\* rows of the operations and one row per pass the sweeps expire
MaxLiveLogs == MaxLogs + MaxPasses

\* datetime.utcnow() moves on toward the deadlines of the Active passes
TickLive ==
    /\ Idle
    /\ \E pid \in PassIds : passes[pid].state = ACTIVE /\ now < passes[pid].expires_at
    /\ now' = now + ClockStep
    /\ UNCHANGED <<tables, config, resp, inflight>>

\* a teacher or an admin opens the index
StaffIndex == \E u \in {"t1", "admin"} : index_capped(u, MaxLiveLogs)

NextLive ==
    \/ Deliver
    \/ TickLive
    \/ StaffIndex
    \/ \E first \in FirstChoices("s1") : request_pass("s1", NoToken, 1, NoPeriod, first)
    \/ \E pid \in PassIds : \E cp \in ApproveCpChoices("t1", pid) : approve("t1", pid, cp)
    \/ \E pid \in PassIds, m \in MinutesInputs, r \in Reasons : override("t1", pid, m, r)
    \/ \E pid \in PassIds : cancel("s1", pid)

\* every response is delivered, time keeps advancing and the staff index
\* keeps being opened
Fairness ==
    /\ WF_vars(Deliver)
    /\ SF_vars(TickLive)
    /\ SF_vars(StaffIndex)

SpecLive == Init /\ [][NextLive]_vars /\ Fairness

-----------------------------------------------------------------------------
(* Two requests at once.  Each request has its own session; the server      *)
(* handles requests in threads and nothing in approve or deny locks the     *)
(* row or checks a version, so the read of one handler (db.session.get and  *)
(* the checks on what it loaded) and its write (the flush of the changed    *)
(* attributes and the commit) can have the other handler's steps between.   *)

Busy(h) == inflight[h].u # NoUser

\* UPDATE passes SET <the attributes the session changed> WHERE id = ...:
\* the row there is, with the columns that differ between what the session
\* loaded and what it holds now
Flush(cur, loaded, held) ==
    [f \in DOMAIN cur |-> IF held[f] # loaded[f] THEN held[f] ELSE cur[f]]

\* approve up to the window check: the pass is loaded and checked
approve_load(h, u, pid, selected_cp) ==
    LET outcome == ApproveOutcome(u, pid, selected_cp)
    IN  /\ Idle /\ LoggedIn(u)
        /\ ~Busy(h)
        \* the second name stands for a request that arrives during another
        /\ h = "approve2" => Busy("approve")
        /\ selected_cp \in ApproveCpChoices(u, pid)
        /\ IF outcome \notin {Approved, ApprovedWithWarning}
           THEN /\ resp' = Resp("approve", u, pid, outcome)
                /\ UNCHANGED inflight
           ELSE /\ inflight' = [inflight EXCEPT ![h] =
                                   [u |-> u, pid |-> pid, p |-> passes[pid],
                                    assigned |-> AssignedIn(assignments, pid, u),
                                    flash |-> outcome]]
                /\ UNCHANGED resp
        /\ UNCHANGED <<now, tables, config>>

\* the assignment row added when the query for it found none
TrackStaffFound(asg, pid, u, found) ==
    IF found THEN asg ELSE Append(asg, PassAssignment(pid, u))

\* approve from the timer to the commit, on the pass as it was loaded; the
\* query for the approver's assignment ran before or after the commits of
\* the other requests
approve_commit(h) ==
    LET s == inflight[h]
        ps == [passes EXCEPT ![s.pid] = Flush(passes[s.pid], s.p, ApprovedPass(s.p, now))]
    IN  /\ Idle
        /\ Busy(h)
        /\ inflight' = [inflight EXCEPT ![h] = NoSession]
        /\ \E found \in {s.assigned, AssignedIn(assignments, s.pid, s.u)} :
              LET asg == TrackStaffFound(assignments, s.pid, s.u, found)
              IN  IF ~CommitOk(ps, asg, overrides)
                  THEN /\ resp' = Resp("approve", s.u, s.pid, ServerError)
                       /\ UNCHANGED tables
                  ELSE /\ Len(logs) < MaxRaceLogs
                       /\ passes' = ps
                       /\ assignments' = asg
                       /\ logs' = Append(logs, LogEntry(s.u, "pass_approved", "pass", s.pid,
                                                        Msg("approved")))
                       /\ resp' = Resp("approve", s.u, s.pid, s.flash)
                       /\ UNCHANGED overrides
        /\ UNCHANGED <<now, config>>

\* deny up to the state check
deny_load(u, pid) ==
    LET reject(flash) ==
            /\ resp' = Resp("deny", u, pid, flash)
            /\ UNCHANGED inflight
    IN  /\ Idle /\ LoggedIn(u)
        /\ ~Busy("deny")
        /\ IF ~(is_teacher(u) \/ is_admin(u))
           THEN reject("Teacher/Admin required to deny.")
           ELSE IF pid \notin PassIds
           THEN reject("Pass not found.")
           ELSE IF ~Deniable(passes[pid])
           THEN reject("Only pending passes can be denied.")
           ELSE /\ inflight' = [inflight EXCEPT !["deny"] =
                                   [u |-> u, pid |-> pid, p |-> passes[pid],
                                    assigned |-> FALSE, flash |-> "Denied"]]
                /\ UNCHANGED resp
        /\ UNCHANGED <<now, tables, config>>

\* deny from the assignment of the state to the commit
deny_commit ==
    LET s == inflight["deny"]
        ps == [passes EXCEPT ![s.pid] =
                  Flush(passes[s.pid], s.p, [s.p EXCEPT !.state = DENIED])]
    IN  /\ Idle
        /\ Busy("deny")
        /\ inflight' = [inflight EXCEPT !["deny"] = NoSession]
        /\ IF ~CommitOk(ps, assignments, overrides)
           THEN /\ resp' = Resp("deny", s.u, s.pid, ServerError)
                /\ UNCHANGED tables
           ELSE /\ Len(logs) < MaxRaceLogs
                /\ passes' = ps
                /\ logs' = Append(logs, LogEntry(s.u, "pass_denied", "pass", s.pid,
                                                 Msg("")))
                /\ resp' = Resp("deny", s.u, s.pid, s.flash)
                /\ UNCHANGED <<assignments, overrides>>
        /\ UNCHANGED <<now, config>>

\* the users whose requests run together: a student who requests, and a
\* teacher and the admin who approve and deny
RaceUsers == {"t1", "admin", "s1"}
RaceStaff == {"t1", "admin"}

NextRace ==
    \/ Deliver
    \/ Tick
    \/ \E u \in RaceUsers, d \in DOMAIN destinations :
          \E first \in FirstChoices(u) : request_pass(u, NoToken, d, NoPeriod, first)
    \/ \E h \in ApproveHandlers, u \in RaceStaff, pid \in PassIdInputs :
          \E cp \in ApproveCpChoices(u, pid) : approve_load(h, u, pid, cp)
    \/ \E h \in ApproveHandlers : approve_commit(h)
    \/ \E u \in RaceStaff, pid \in PassIdInputs : deny_load(u, pid)
    \/ deny_commit

SpecRace == Init /\ [][NextRace]_vars

-----------------------------------------------------------------------------
(* Properties of the pass lifecycle *)

HasTimes(p) == p.issued_at # NULL /\ p.expires_at # NULL

\* the rows of pass_assignments for one (pass, teacher) pair
AssignmentCount(pid, teacher) ==
    Cardinality({i \in 1..Len(assignments) :
        assignments[i] = PassAssignment(pid, teacher)})

LastLog == logs[Len(logs)]

\* the rows a step appends to the overrides and to the logs for one pass
NewOverrides(pid) ==
    {i \in (Len(overrides) + 1)..Len(overrides') : overrides'[i].pass_id = pid}

NewLogs(pid) ==
    {i \in (Len(logs) + 1)..Len(logs') :
        logs'[i].target_type = "pass" /\ logs'[i].target_id = pid}

OverrideOps == {"override", "my_period_override_selected"}

\* C1: in every reachable state every pass has expires_at set if and only if
\* issued_at is set, and expires_at > issued_at when both are set, whatever
\* default duration the admin stored and whatever add_minutes an override got.
C1_TimeOrder ==
    \A pid \in PassIds :
        /\ (passes[pid].expires_at # NULL) <=> (passes[pid].issued_at # NULL)
        /\ passes[pid].expires_at # NULL =>
               passes[pid].expires_at > passes[pid].issued_at

\* an approval that would have set a deadline not after the issue time (the
\* destination's default is zero or negative) was refused, the pass stays pending
C1_Witness ==
    /\ resp.op = "approve"
    /\ resp.flash = ServerError
    /\ \E pid \in PassIds :
          /\ passes[pid].state = PENDING
          /\ ~HasTimes(passes[pid])
          /\ destinations[passes[pid].destination_id] <= 0

\* the legal changes of a pass's state
Transitions ==
    {<<PENDING, ACTIVE>>, <<PENDING, DENIED>>, <<PENDING, CANCELLED>>,
     <<ACTIVE, CANCELLED>>, <<ACTIVE, EXPIRED>>}

\* C2: a pass's state changes only along Pending->Active, Pending->Denied,
\* Pending->Cancelled, Active->Cancelled and Active->Expired (so an Expired,
\* Cancelled or Denied pass never changes state again), no pass is removed,
\* and no pass is ever Archived.
C2_Transitions ==
    /\ [][/\ Len(passes') >= Len(passes)
          /\ \A pid \in PassIds :
                \/ passes'[pid].state = passes[pid].state
                \/ <<passes[pid].state, passes'[pid].state>> \in Transitions]_vars
    /\ [](\A pid \in PassIds : passes[pid].state # ARCHIVED)

\* an approve, a deny and a cancel each met a pass in a terminal state
C2_Witness ==
    /\ resp.op = "cancel"
    /\ resp.flash = "Pass is not active."
    /\ \E pid \in PassIds : passes[pid].state \in {EXPIRED, CANCELLED, DENIED}

\* C3: whenever a Pending pass is approved (single approve or batch approve
\* logs pass_approved for it) or otherwise becomes Active at time now, it is
\* Active afterwards with issued_at = now and expires_at = now plus the
\* default minutes of its destination.
C3_ApprovalStartsTimer ==
    [][\A pid \in PassIds :
          /\ passes[pid].state = PENDING
          /\ \/ passes'[pid].state = ACTIVE
             \/ \E i \in NewLogs(pid) : logs'[i].action = "pass_approved"
          =>  /\ passes'[pid].state = ACTIVE
              /\ passes'[pid].issued_at = now
              /\ passes'[pid].expires_at =
                     now + 60 * destinations[passes[pid].destination_id]]_vars

\* a requested pass for the 5-minute destination approved at 10:00:00 is
\* Active with issued_at 10:00:00 and expires_at 10:05:00
C3_Witness ==
    /\ resp.op = "approve"
    /\ resp.flash = "Approved"
    /\ \E pid \in PassIds :
          /\ LastLog = LogEntry(LastLog.actor_id, "pass_approved", "pass", pid,
                                Msg("approved"))
          /\ \E i \in 1..Len(logs) :
                logs[i].action = "pass_requested" /\ logs[i].target_id = pid
          /\ passes[pid].state = ACTIVE
          /\ passes[pid].issued_at = 10 * 3600
          /\ passes[pid].expires_at = 10 * 3600 + 5 * 60

\* C4: an approve leaves every pass that is already Active exactly as it was
\* (state, issued_at, expires_at), and however often a user approves a pass
\* there is exactly one PassAssignment row for that (pass, approver) pair.
C4_ReapproveIdempotent ==
    /\ [][resp'.op = "approve" =>
             \A pid \in PassIds :
                 passes[pid].state = ACTIVE => passes'[pid] = passes[pid]]_vars
    /\ [](\A i \in 1..Len(logs) :
             logs[i].action = "pass_approved" /\ logs[i].message = Msg("approved") =>
                 AssignmentCount(logs[i].target_id, logs[i].actor_id) = 1)

\* the same user has approved the same pass twice, the second time after the
\* clock moved on
C4_Witness ==
    /\ resp.op = "approve"
    /\ resp.flash = "Approved"
    /\ \E i, j \in 1..Len(logs) :
          /\ i < j
          /\ logs[i] = logs[j]
          /\ logs[i].action = "pass_approved"
          /\ logs[i].message = Msg("approved")
          /\ AssignmentCount(logs[i].target_id, logs[i].actor_id) = 1
          /\ passes[logs[i].target_id].state = ACTIVE
          /\ passes[logs[i].target_id].issued_at < now

\* C5: whenever an approval moves a pass from Pending to Active (single or
\* batch, by a teacher or an admin), a PassAssignment row for (that pass, the
\* approving actor) exists afterwards.
C5_ApproverAssigned ==
    [][\A pid \in PassIds :
          passes[pid].state = PENDING /\ passes'[pid].state = ACTIVE =>
              \A i \in NewLogs(pid) :
                  logs'[i].action = "pass_approved" =>
                      AssignedIn(assignments', pid, logs'[i].actor_id)]_vars

\* C6: each successful extend, single or each pass of a batch, appends exactly
\* one Override row for the pass and removes or rewrites none; the row's
\* previous_expires_at is the deadline before the step, its new_expires_at the
\* deadline after it, and their difference is the requested minutes in seconds.
C6_ExtendAppendsOverride ==
    [][/\ Len(overrides') >= Len(overrides)
       /\ SubSeq(overrides', 1, Len(overrides)) = overrides
       /\ \A pid \in PassIds :
             LET extended == \E i \in NewLogs(pid) :
                                 logs'[i].action \in {"override_admin", "override_teacher"}
             IN  /\ passes'[pid].expires_at # passes[pid].expires_at
                        /\ passes[pid].expires_at # NULL => extended
                 /\ Cardinality(NewOverrides(pid)) = IF extended THEN 1 ELSE 0
                 /\ \A i \in NewOverrides(pid) :
                       /\ resp'.op \in OverrideOps
                       /\ overrides'[i].previous_expires_at = passes[pid].expires_at
                       /\ overrides'[i].new_expires_at = passes'[pid].expires_at
                       /\ overrides'[i].new_expires_at - overrides'[i].previous_expires_at
                              = resp'.minutes * 60]_vars

\* +10 minutes on the pass that expires at 10:05:00: one Override row with
\* previous 10:05:00 and new 10:15:00, and the pass expires at 10:15:00
C6_Witness ==
    /\ resp.op \in OverrideOps
    /\ resp.minutes = 10
    /\ Len(overrides) = 1
    /\ overrides[1].pass_id = 1
    /\ overrides[1].previous_expires_at = 10 * 3600 + 5 * 60
    /\ overrides[1].new_expires_at = 10 * 3600 + 15 * 60
    /\ passes[1].state = ACTIVE
    /\ passes[1].expires_at = 10 * 3600 + 15 * 60

\* C7: an extend (single or batch) leaves a pass that is not Active alone:
\* its expires_at is unchanged, no Override row and no audit entry is
\* written for it.
C7_ExtendOnlyActive ==
    [][resp'.op \in OverrideOps =>
          \A pid \in PassIds :
              passes[pid].state # ACTIVE =>
                  /\ passes'[pid].expires_at = passes[pid].expires_at
                  /\ NewOverrides(pid) = {}
                  /\ NewLogs(pid) = {}]_vars

\* C8: an extend (single or batch) with minutes <= 0 writes nothing: no
\* deadline changes, no Override row and no audit entry is added.
C8_ExtendPositiveOnly ==
    [][resp'.op \in OverrideOps /\ resp'.minutes <= 0 =>
          UNCHANGED <<passes, overrides, logs>>]_vars

\* C9: the sweep of the staff index at time now moves a pass to Expired if
\* and only if the pass is Active with expires_at <= now, exactly as
\* mark_expired_if_needed would; every other pass is untouched, and no
\* issued_at or expires_at changes.
C9_Sweep ==
    [][resp'.op = "index" /\ resp'.flash = "passes/index.html" =>
          /\ Len(passes') = Len(passes)
          /\ \A pid \in PassIds :
                LET due == /\ passes[pid].state = ACTIVE
                           /\ passes[pid].expires_at # NULL
                           /\ passes[pid].expires_at <= now
                IN  /\ passes'[pid].issued_at = passes[pid].issued_at
                    /\ passes'[pid].expires_at = passes[pid].expires_at
                    /\ due => passes'[pid].state = EXPIRED
                    /\ ~due => passes'[pid] = passes[pid]
                    /\ passes'[pid] = mark_expired_if_needed(passes[pid], now)]_vars

\* the sweep met a pass whose deadline is exactly now and expired it, and left
\* a pending pass alone
C9_Witness ==
    /\ resp.op = "index"
    /\ resp.flash = "passes/index.html"
    /\ \E pid, other \in PassIds :
          /\ passes[pid].state = EXPIRED
          /\ passes[pid].expires_at = now
          /\ LastLog = LogEntry(LastLog.actor_id, "pass_auto_expired", "pass", pid,
                                Msg("expired by system"))
          /\ passes[other].state = PENDING

\* C10: no listing of pending and active passes (staff index, my-period, kiosk
\* data) taken at time now returns an Active pass with expires_at <= now.
C10_ListingsSwept ==
    resp.op \in {"index", "my_period", "data"} /\ resp.flash # "passes/mine.html" =>
        \A r \in resp.rows :
            ~(r.state = ACTIVE /\ r.expires_at # NULL /\ r.expires_at <= resp.at)

\* the remaining seconds of a pass in the given state with the given deadline
RemainingAt(state, expires_at, t) ==
    IF state # ACTIVE \/ expires_at = NULL \/ t >= expires_at THEN 0 ELSE expires_at - t

\* the instants around a pass's deadline, and now
Instants(p) ==
    {now} \cup (IF p.expires_at = NULL THEN {}
                ELSE {p.expires_at - 1, p.expires_at, p.expires_at + 1})

\* C11: remaining_seconds(pass, t) is 0 for every pass that is not Active,
\* for every pass with no expires_at and for every Active pass with
\* t >= expires_at; otherwise it is expires_at - t; it is never negative. This
\* holds of every stored pass at now and around its deadline, and of every
\* row of the staff listings.
C11_RemainingSeconds ==
    /\ \A pid \in PassIds : \A t \in Instants(passes[pid]) :
          /\ remaining_seconds(passes[pid], t) =
                 RemainingAt(passes[pid].state, passes[pid].expires_at, t)
          /\ remaining_seconds(passes[pid], t) >= 0
    /\ resp.op \in {"index", "my_period"} =>
          \A r \in resp.rows :
              /\ r.remaining_seconds = RemainingAt(r.state, r.expires_at, resp.at)
              /\ r.remaining_seconds >= 0

\* a listing taken after the deadline of an Active pass shows it with 0
\* remaining seconds, next to a Pending pass with no deadline
C11_Witness ==
    /\ resp.op = "my_period"
    /\ \E r, q \in resp.rows :
          /\ r.state = ACTIVE
          /\ r.expires_at < resp.at
          /\ r.remaining_seconds = 0
          /\ q.state = PENDING
          /\ q.expires_at = NULL
          /\ q.remaining_seconds = 0

\* C12: the kiosk data snapshot lists only Active passes, and in every row
\* remaining_seconds is max(0, expires_at - now) for the snapshot's own now,
\* the value Pass.remaining_seconds yields for that pass at that instant.
C12_KioskSnapshot ==
    resp.op = "data" =>
        \A r \in resp.rows :
            /\ r.state = ACTIVE
            /\ r.id \in PassIds
            /\ passes[r.id].state = ACTIVE
            /\ r.expires_at # NULL
            /\ r.remaining_seconds = Max(0, r.expires_at - resp.at)
            /\ r.remaining_seconds = remaining_seconds(passes[r.id], resp.at)

\* a snapshot taken past the deadline of an Active pass lists it with 0
\* seconds, and leaves out a pass that is not Active
C12_Witness ==
    /\ resp.op = "data"
    /\ \E r \in resp.rows :
          /\ r.expires_at < resp.at
          /\ r.remaining_seconds = 0
    /\ \E pid \in PassIds :
          /\ passes[pid].state # ACTIVE
          /\ \A r \in resp.rows : r.id # pid

Terminal == {EXPIRED, CANCELLED, DENIED, ARCHIVED}

NewAssignments(pid) ==
    {i \in (Len(assignments) + 1)..Len(assignments') : assignments'[i].pass_id = pid}

\* the pass and every row about it are as before the step
Untouched(pid) ==
    /\ passes'[pid] = passes[pid]
    /\ NewAssignments(pid) = {}
    /\ NewOverrides(pid) = {}
    /\ NewLogs(pid) = {}

\* C13: an approve changes nothing about a pass that is Expired, Cancelled,
\* Denied or Archived, a deny nothing about a pass that is not Pending, a
\* cancel nothing about a pass in a terminal state: state, timestamps,
\* assignments, override ledger and audit log are as before, and none of the
\* three removes or rewrites a row.
C13_IllegalRejected ==
    [][resp'.op \in {"approve", "deny", "cancel"} =>
          /\ SubSeq(assignments', 1, Len(assignments)) = assignments
          /\ SubSeq(logs', 1, Len(logs)) = logs
          /\ overrides' = overrides
          /\ Len(passes') = Len(passes)
          /\ \A pid \in PassIds :
                LET illegal == IF resp'.op = "deny"
                               THEN passes[pid].state # PENDING
                               ELSE passes[pid].state \in Terminal
                IN  illegal => Untouched(pid)]_vars

\* a deny met a pass that is not Pending, at a time when no pass is Pending
C13_Witness ==
    /\ resp.op = "deny"
    /\ resp.flash = "Only pending passes can be denied."
    /\ \E pid \in PassIds : passes[pid].state \in Terminal
    /\ \E pid \in PassIds : passes[pid].state = ACTIVE

\* C14: a cancel changes a pass, or logs about it, only when the actor is the
\* student who requested the pass or a Teacher or Admin; a cancel refused as
\* not authorized leaves passes, assignments, overrides and audit log unchanged.
C14_CancelAuthorized ==
    [][resp'.op = "cancel" =>
          /\ resp'.flash = "Not authorized." => UNCHANGED tables
          /\ \A pid \in PassIds :
                passes'[pid] # passes[pid] \/ NewLogs(pid) # {} =>
                    /\ passes'[pid] = [passes[pid] EXCEPT !.state = CANCELLED]
                    /\ \A i \in NewLogs(pid) :
                          /\ logs'[i].action = "pass_cancelled"
                          /\ \/ logs'[i].actor_id = passes[pid].student_id
                             \/ users[logs'[i].actor_id].role \in {"Teacher", "Admin"}]_vars

\* another student's cancel of a pass that could be cancelled was refused
C14_Witness ==
    /\ resp.op = "cancel"
    /\ resp.flash = "Not authorized."
    /\ \E pid \in PassIds : passes[pid].state \in {PENDING, ACTIVE}
    /\ \A pid \in PassIds : passes[pid].student_id = "s1"

-----------------------------------------------------------------------------
(* Properties of requests and of the resolution of the teacher *)

Students == {u \in DOMAIN users : users[u].role = "Student"}

\* C15: a successful request adds exactly one pass, Pending with issued_at
\* and expires_at unset, and exactly one PassAssignment, binding the new pass
\* to the teacher resolution gives for the requester and the token the
\* request came with; nothing else adds a pass.
C15_RequestCreatesPending ==
    [][/\ Len(passes') # Len(passes) =>
             resp'.op = "request_pass" /\ resp'.flash = Requested
       /\ resp'.op = "request_pass" /\ resp'.flash = Requested =>
             LET pid == Len(passes) + 1
                 new == passes'[pid]
                 asg == assignments'[Len(assignments')]
                 log == logs'[Len(logs')]
             IN  /\ Len(passes') = pid
                 /\ SubSeq(passes', 1, Len(passes)) = passes
                 /\ new.state = PENDING
                 /\ new.issued_at = NULL
                 /\ new.expires_at = NULL
                 /\ Len(assignments') = Len(assignments) + 1
                 /\ SubSeq(assignments', 1, Len(assignments)) = assignments
                 /\ asg.pass_id = pid
                 /\ log.action = "pass_requested" /\ log.target_id = pid
                 /\ log.actor_id = new.student_id
                 /\ asg.teacher_id = log.message.teacher
                 /\ asg.teacher_id # NoUser
                 /\ \E cp \in PeriodInputs, first \in FirstChoices(new.student_id) :
                       Resolve(new.student_id, log.message.kiosk, cp, first).teacher
                           = asg.teacher_id]_vars

\* a request through the kiosk of the second teacher has created a Pending
\* pass assigned to that teacher
C15_Witness ==
    /\ resp.op = "request_pass"
    /\ resp.flash = Requested
    /\ Len(passes) = 2
    /\ passes[2].state = PENDING
    /\ ~HasTimes(passes[2])
    /\ LastLog.message.kiosk = "K2"
    /\ assignments = <<PassAssignment(1, "t1"), PassAssignment(2, "t2")>>

\* C16: a request naming an unknown destination ends as "Invalid destination."
\* whoever the student and whatever the token and period choice, and creates
\* no pass, no PassAssignment and no audit entry; every pass created names a
\* known destination.
C16_UnknownDestination ==
    /\ [](\A u \in Students, token \in KioskTokens, cp \in PeriodInputs :
             \A d \in DestInputs \ DOMAIN destinations, first \in FirstChoices(u) :
                 RequestOutcome(u, token, d, cp, first) = "Invalid destination.")
    /\ [][resp'.op = "request_pass" =>
             /\ resp'.flash = "Invalid destination." => UNCHANGED tables
             /\ Len(passes') > Len(passes) =>
                    passes'[Len(passes')].destination_id \in DOMAIN destinations]_vars

\* a request for an unknown destination was refused although the first
\* student's enrollments resolve to a teacher
C16_Witness ==
    /\ resp.op = "request_pass"
    /\ resp.flash = "Invalid destination."
    /\ Len(passes) = 1
    /\ Cardinality(unique_teachers("s1")) = 1

\* the active kiosks bound to a class period there is
PeriodKiosks ==
    {k \in kiosks : k.is_active = 1 /\ k.class_period_id \in DOMAIN periods}

Owner(cp) == periods[cp].teacher_id

\* the student is actively enrolled in a period other than cp whose owner is
\* not the owner of cp
EnrolledElsewhere(student, cp) ==
    \E q \in DOMAIN periods \ {cp} :
        HasActiveEnrollment(student, q) /\ Owner(q) # Owner(cp)

\* the pass a step creates, its assignment and its log row
Created == passes'[Len(passes')]
CreatedAssignment == assignments'[Len(assignments')]
CreatedLog == logs'[Len(logs')]

\* C17 as stated: a pass requested with the token of an active kiosk bound to
\* period P, by a student also enrolled in a period Q of another owner, is
\* assigned to P's owner, whatever period the student chose in the form.
C17_KioskPeriodWins ==
    [][resp'.op = "request_pass" /\ resp'.flash = Requested =>
          \A k \in PeriodKiosks :
              /\ CreatedLog.message.kiosk = k.token
              /\ EnrolledElsewhere(Created.student_id, k.class_period_id)
              => CreatedAssignment.teacher_id = Owner(k.class_period_id)]_vars

\* C17 amended: with kiosk_strict_binding true, or with no period chosen, or a
\* chosen period the student is not actively enrolled in, resolution for the
\* token of an active kiosk bound to period P gives P's owner and P; with
\* kiosk_strict_binding false, a pass requested through that kiosk is assigned
\* to P's owner or to the owner of a period the student is actively enrolled in.
C17_KioskPeriodWinsUnlessChosen ==
    /\ [](\A k \in PeriodKiosks, u \in Students, cp \in PeriodInputs :
             \A first \in FirstChoices(u) :
                 kiosk_strict \/ ~HasActiveEnrollment(u, cp) =>
                     Resolve(u, k.token, cp, first) =
                         [teacher |-> Owner(k.class_period_id), cp |-> k.class_period_id])
    /\ [][resp'.op = "request_pass" /\ resp'.flash = Requested =>
             \A k \in PeriodKiosks :
                 CreatedLog.message.kiosk = k.token =>
                     \/ CreatedAssignment.teacher_id = Owner(k.class_period_id)
                     \/ /\ ~kiosk_strict
                        /\ \E q \in DOMAIN periods :
                              /\ HasActiveEnrollment(Created.student_id, q)
                              /\ CreatedAssignment.teacher_id = Owner(q)
                              /\ CreatedLog.message.period = q]_vars

\* under strict binding a student enrolled only in the second teacher's period
\* requested through the kiosk of period 1, and the pass went to period 1's owner
C17_Witness ==
    /\ resp.op = "request_pass"
    /\ resp.flash = Requested
    /\ kiosk_strict
    /\ LastLog.message = RequestMsg("t1", "K1", 1)
    /\ assignments[Len(assignments)] = PassAssignment(Len(passes), "t1")
    /\ passes[Len(passes)].student_id = "s1"
    /\ HasActiveEnrollment("s1", 2)
    /\ ~HasActiveEnrollment("s1", 1)
    /\ Owner(2) = "t2"

\* C18: with kiosk_strict_binding true and a kiosk binding that gives a
\* teacher, the period chosen in the form has no effect: resolution gives the
\* kiosk's teacher and period for every choice, and the pass created is
\* assigned to the kiosk's teacher.
C18_StrictBinding ==
    /\ [](\A u \in Students, token \in KioskTokens, cp \in PeriodInputs :
             \A first \in FirstChoices(u) :
                 /\ kiosk_strict
                 /\ is_kiosk(token)
                 /\ KioskTarget(token).teacher # NoUser
                 => Resolve(u, token, cp, first) = KioskTarget(token))
    /\ [][/\ resp'.op = "request_pass" /\ resp'.flash = Requested
          /\ kiosk_strict
          /\ is_kiosk(CreatedLog.message.kiosk)
          /\ KioskTarget(CreatedLog.message.kiosk).teacher # NoUser
          => /\ CreatedAssignment.teacher_id = KioskTarget(CreatedLog.message.kiosk).teacher
             /\ CreatedLog.message.period = KioskTarget(CreatedLog.message.kiosk).cp]_vars

\* under strict binding a student actively enrolled only in the first
\* teacher's period requested through the kiosk bound to the second teacher
C18_Witness ==
    /\ resp.op = "request_pass"
    /\ resp.flash = Requested
    /\ kiosk_strict
    /\ LastLog.message = RequestMsg("t2", "K2", NoPeriod)
    /\ assignments[Len(assignments)] = PassAssignment(Len(passes), "t2")
    /\ passes[Len(passes)].student_id = "s1"
    /\ HasActiveEnrollment("s1", 1)
    /\ unique_teachers("s1") = {"t1"}

\* the owners that count for a student: active users with the Teacher role
\* owning an active period in which the student is actively enrolled
Qualifying(u) ==
    {t \in DOMAIN users :
        /\ users[t].role = "Teacher"
        /\ users[t].is_active_flag = 1
        /\ \E cp \in DOMAIN periods :
              /\ periods[cp].teacher_id = t
              /\ periods[cp].is_active = 1
              /\ \E e \in enrollments :
                    e.student_id = u /\ e.class_period_id = cp /\ e.is_active = 1}

Unresolved == "Please select a class period (or use a kiosk)."

\* C19: with no kiosk binding (no token, a token of no kiosk or of an inactive
\* kiosk) and no period chosen, a student's request resolves if and only if
\* exactly one teacher qualifies, and then to that teacher; a request that
\* does not resolve changes no table.
C19_Inference ==
    /\ [](\A u \in Students, token \in KioskTokens, d \in DOMAIN destinations :
             \A first \in FirstChoices(u) :
                 ~is_kiosk(token) =>
                     /\ RequestOutcome(u, token, d, NoPeriod, first) # Unresolved
                            <=> Cardinality(Qualifying(u)) = 1
                     /\ Cardinality(Qualifying(u)) = 1 =>
                            Resolve(u, token, NoPeriod, first).teacher \in Qualifying(u)
                     /\ Cardinality(Qualifying(u)) # 1 =>
                            Resolve(u, token, NoPeriod, first).teacher = NoUser)
    /\ [][resp'.op = "request_pass" /\ resp'.flash = Unresolved => UNCHANGED tables]_vars

\* a student actively enrolled in both periods, the second of which does not
\* count (inactive, or its owner inactive), requested with no token and was
\* assigned to the first period's owner
C19_Witness ==
    /\ resp.op = "request_pass"
    /\ resp.flash = Requested
    /\ LastLog.message.kiosk = NoToken
    /\ LastLog.message.teacher = "t1"
    /\ passes[Len(passes)].student_id = "s1"
    /\ HasActiveEnrollment("s1", 1)
    /\ HasActiveEnrollment("s1", 2)
    /\ Owner(2) = "t2"
    /\ periods[2].is_active = 0 \/ users["t2"].is_active_flag = 0

\* C20: a failed resolution tells NoApprover from AmbiguousApprover: the
\* message a request ended with is never both the outcome of a request, with
\* no token and no choice, of a student with no qualifying enrollment and the
\* outcome of such a request of a student enrolled with two or more owners.
C20_DistinctFailures ==
    resp.op = "request_pass" =>
        ~ \E u, v \in Students, d \in DOMAIN destinations :
            /\ Cardinality(Qualifying(u)) = 0
            /\ Cardinality(Qualifying(v)) >= 2
            /\ \A first \in FirstChoices(u) :
                  RequestOutcome(u, NoToken, d, NoPeriod, first) = resp.flash
            /\ \A first \in FirstChoices(v) :
                  RequestOutcome(v, NoToken, d, NoPeriod, first) = resp.flash

\* the periods in which the student holds an enrollment row with the active flag on
ActivelyEnrolledIn(student) ==
    {e.class_period_id : e \in {x \in enrollments : x.student_id = student /\ x.is_active = 1}}

\* C21: a period chosen in the form is honoured only if the requester holds an
\* active enrollment in it: a choice of a period with no enrollment, or with an
\* inactive one, resolves as the same request with no choice, and the pass
\* created goes to the kiosk's teacher or to the owner of a period of an active
\* enrollment, with that period or the kiosk's as its context.
C21_ExplicitNeedsEnrollment ==
    /\ [](\A u \in Students, token \in KioskTokens, cp \in PeriodInputs :
             \A first \in FirstChoices(u) :
                 cp \notin ActivelyEnrolledIn(u) =>
                     Resolve(u, token, cp, first) = Resolve(u, token, NoPeriod, first))
    /\ [][resp'.op = "request_pass" /\ resp'.flash = Requested =>
             \/ /\ CreatedAssignment.teacher_id = KioskTarget(CreatedLog.message.kiosk).teacher
                /\ CreatedLog.message.period = KioskTarget(CreatedLog.message.kiosk).cp
             \/ /\ CreatedLog.message.period \in ActivelyEnrolledIn(Created.student_id)
                /\ CreatedAssignment.teacher_id = Owner(CreatedLog.message.period)]_vars

\* with strict binding off, the first student, whose only enrollment is an
\* inactive one in the first teacher's period, requested through the second
\* teacher's kiosk and the pass went to the kiosk's teacher with no period
C21_Witness ==
    /\ resp.op = "request_pass"
    /\ resp.flash = Requested
    /\ ~kiosk_strict
    /\ LastLog.message = RequestMsg("t2", "K2", NoPeriod)
    /\ passes[Len(passes)].student_id = "s1"
    /\ ActivelyEnrolledIn("s1") = {}
    /\ \E e \in enrollments : e.student_id = "s1" /\ e.class_period_id = 1 /\ e.is_active = 0
    /\ Owner(1) = "t1"

\* the tokens of no kiosk row with the active flag on
DeadTokens == {t \in KioskTokens : ~ \E k \in kiosks : k.token = t /\ k.is_active = 1}

\* C22: only an active kiosk takes part in resolution: with a token of no
\* kiosk, or of a kiosk whose active flag is off, the approver and the context
\* period are those of the same request with no token, and a pass created
\* with such a token is assigned as some request of that student with no
\* token resolves.
C22_DeadTokenNoInfluence ==
    /\ [](\A u \in Students, token \in DeadTokens, cp \in PeriodInputs :
             \A first \in FirstChoices(u) :
                 Resolve(u, token, cp, first) = Resolve(u, NoToken, cp, first))
    /\ [][/\ resp'.op = "request_pass" /\ resp'.flash = Requested
          /\ CreatedLog.message.kiosk \in DeadTokens
          => \E cp \in PeriodInputs, first \in FirstChoices(Created.student_id) :
                 Resolve(Created.student_id, NoToken, cp, first) =
                     [teacher |-> CreatedAssignment.teacher_id,
                      cp |-> CreatedLog.message.period]]_vars

\* the first student, actively enrolled in the first teacher's period only,
\* requested with the token of the inactive kiosk bound to the second
\* teacher's period, and the pass went to the first teacher
C22_Witness ==
    /\ resp.op = "request_pass"
    /\ resp.flash = Requested
    /\ LastLog.message = RequestMsg("t1", "K3", 1)
    /\ \E k \in kiosks : k.token = "K3" /\ k.is_active = 0 /\ k.class_period_id = 2
    /\ Owner(2) = "t2"
    /\ passes[Len(passes)].student_id = "s1"
    /\ ActivelyEnrolledIn("s1") = {1}

\* C23: resolution is deterministic: for one requester, token, chosen period
\* and settings against one snapshot, the approver selected does not depend on
\* which row the unordered enrollment query returns first, and the pass
\* created is assigned to the one approver some choice of period resolves to.
C23_Deterministic ==
    /\ [](\A u \in Students, token \in KioskTokens, cp \in PeriodInputs :
             \A f1, f2 \in FirstChoices(u) :
                 Resolve(u, token, cp, f1).teacher = Resolve(u, token, cp, f2).teacher)
    /\ [][resp'.op = "request_pass" /\ resp'.flash = Requested =>
             \E cp \in PeriodInputs :
                 \A first \in FirstChoices(Created.student_id) :
                     Resolve(Created.student_id, CreatedLog.message.kiosk, cp, first).teacher
                         = CreatedAssignment.teacher_id]_vars

\* the first student, actively enrolled in two periods of the first teacher,
\* requested with no token; the enrollment query gave the second period first
C23_Witness ==
    /\ resp.op = "request_pass"
    /\ resp.flash = Requested
    /\ LastLog.message = RequestMsg("t1", NoToken, 2)
    /\ passes[Len(passes)].student_id = "s1"
    /\ FirstChoices("s1") = {1, 2}
    /\ Owner(1) = "t1" /\ Owner(2) = "t1"

\* the stored value of a setting is the given text
Stored(key, value) == key \in DOMAIN settings /\ settings[key] = value

\* the window is enforced and approval outside it is not allowed
StrictWindow ==
    /\ Stored("enforce_period_time_window", "true")
    /\ Stored("allow_teacher_approval_outside_period", "false")

\* the window is enforced and approval outside it is allowed
LenientWindow ==
    /\ Stored("enforce_period_time_window", "true")
    /\ Stored("allow_teacher_approval_outside_period", "true")

Staff == {u \in DOMAIN users : users[u].role \in {"Teacher", "Admin"}}

\* the step appended the audit row of an approval of pid by u
ApprovalLogged(u, pid) ==
    /\ Len(logs') = Len(logs) + 1
    /\ logs'[Len(logs')] = LogEntry(u, "pass_approved", "pass", pid, Msg("approved"))

\* C24: with enforce_period_time_window true and
\* allow_teacher_approval_outside_period false, an approve whose context
\* period is out of window is rejected as a window violation and changes no
\* table: the blocked response leaves passes, assignments, overrides and logs
\* as they were, no approval ends with the warning, and an approval takes
\* effect only if a context period the handler can select is absent or in
\* window.
C24_WindowViolation ==
    /\ [](StrictWindow => resp.flash # ApprovedWithWarning)
    /\ [][resp'.op = "approve" /\ resp'.flash = ApprovalBlocked =>
             StrictWindow /\ UNCHANGED tables]_vars
    /\ [][StrictWindow =>
             \A u \in Staff, pid \in PassIds :
                 ApprovalLogged(u, pid) =>
                     \E cp \in ApproveCpChoices(u, pid) :
                         cp = NoPeriod \/ is_now_in_window(periods[cp], now)]_vars

\* a pass requested inside the window 10:00-10:05 is still Pending at 10:10,
\* when an approve was blocked
C24_Witness ==
    /\ resp.op = "approve"
    /\ resp.flash = ApprovalBlocked
    /\ StrictWindow
    /\ Len(passes) = 2
    /\ passes[2].state = PENDING
    /\ passes[2].student_id = "s1"
    /\ periods[1].start_time = Chars("1", "0", ":", "0", "0")
    /\ periods[1].end_time = Chars("1", "0", ":", "0", "5")
    /\ now = StartOfDay + 2 * ClockStep

\* what an approve of pid by u inside the window writes at the present instant
ApprovedInWindow(u, pid) ==
    /\ passes' = [passes EXCEPT ![pid] =
                     IF passes[pid].state = PENDING
                     THEN [student_id |-> passes[pid].student_id,
                           destination_id |-> passes[pid].destination_id,
                           state |-> ACTIVE,
                           issued_at |-> now,
                           expires_at |-> now + 60 * destinations[passes[pid].destination_id]]
                     ELSE passes[pid]]
    /\ assignments' = IF \E i \in 1..Len(assignments) : assignments[i] = PassAssignment(pid, u)
                      THEN assignments
                      ELSE Append(assignments, PassAssignment(pid, u))
    /\ logs' = Append(logs, LogEntry(u, "pass_approved", "pass", pid, Msg("approved")))
    /\ overrides' = overrides

\* C25: with enforce_period_time_window and
\* allow_teacher_approval_outside_period both true, no approve is blocked for
\* the window, and an approve that ends with the warning writes what the same
\* approve inside the window writes at that instant: the pass, the
\* assignments and the audit rows are those of a plain approval.
C25_WarningNoDataEffect ==
    /\ [](LenientWindow => resp.flash # ApprovalBlocked)
    /\ [][/\ LenientWindow
          /\ resp'.op = "approve"
          /\ resp'.flash \in {Approved, ApprovedWithWarning}
          => \E u \in Staff, pid \in PassIds : ApprovedInWindow(u, pid)]_vars

\* a pass requested inside the window 10:00-10:05 was approved at 10:10 with
\* the warning, and its timer runs from 10:10
C25_Witness ==
    /\ resp.op = "approve"
    /\ resp.flash = ApprovedWithWarning
    /\ LenientWindow
    /\ Len(passes) = 2
    /\ passes[2].state = ACTIVE
    /\ passes[2].issued_at = now
    /\ passes[2].expires_at = now + 300
    /\ LastLog = LogEntry("t1", "pass_approved", "pass", 2, Msg("approved"))
    /\ periods[1].start_time = Chars("1", "0", ":", "0", "0")
    /\ periods[1].end_time = Chars("1", "0", ":", "0", "5")
    /\ periods[1].days_mask = <<>>
    /\ now = StartOfDay + 2 * ClockStep

\* a clock time written as HH:MM
TwoDigits(n) == <<Digits[(n \div 10) + 1], Digits[(n % 10) + 1]>>
HM(h, m) == TwoDigits(h) \o <<":">> \o TwoDigits(m)

ClockHours == {9, 10}
ClockMinutes == {0, 5, 59}

\* the hour and minute of the present instant, as minutes of the day, and
\* the day of the week, Monday first
NowClock == (((now \div 3600) % 24) * 60) + ((now \div 60) % 60)
NowDay == ((now \div 86400) % 7) + 1

Restricted == "Requests are restricted outside the class period time window."

\* the present instant is between h1:m1 and h2:m2 inclusive, on a day the
\* mask, if there is one, marks with '1'
InWindow(h1, m1, h2, m2, mask) ==
    /\ h1 * 60 + m1 <= NowClock
    /\ NowClock <= h2 * 60 + m2
    /\ mask # <<>> => mask[NowDay] = "1"

\* C26: is_now_in_window(now) is true whenever the start or the end time is
\* absent; with both written as HH:MM and the day mask absent or of seven
\* characters, it is true exactly when start <= the clock time of now <= end
\* and the mask, if present, has '1' at now's weekday, Monday first.  A
\* request for such a period is refused for the window exactly when now is
\* outside it.
C26_InWindow ==
    /\ [](\A p \in DOMAIN periods :
             /\ periods[p].start_time = <<>> \/ periods[p].end_time = <<>>
                    => is_now_in_window(periods[p], now)
             /\ \A h1, h2 \in ClockHours, m1, m2 \in ClockMinutes :
                    /\ periods[p].start_time = HM(h1, m1)
                    /\ periods[p].end_time = HM(h2, m2)
                    /\ Len(periods[p].days_mask) \in {0, 7}
                    => (is_now_in_window(periods[p], now)
                            <=> InWindow(h1, m1, h2, m2, periods[p].days_mask)))
    /\ [][resp'.op = "request_pass" /\ resp'.flash \in {Restricted, Requested} =>
             \A h1, h2 \in ClockHours, m1, m2 \in ClockMinutes :
                 /\ periods[1].start_time = HM(h1, m1)
                 /\ periods[1].end_time = HM(h2, m2)
                 /\ Len(periods[1].days_mask) \in {0, 7}
                 /\ enforce_window
                 => /\ resp'.flash = Restricted =>
                           ~InWindow(h1, m1, h2, m2, periods[1].days_mask)
                    /\ resp'.flash = Requested /\ CreatedLog.message.period = 1 =>
                           InWindow(h1, m1, h2, m2, periods[1].days_mask)]_vars

\* a request for the period 10:00-10:05, Monday to Friday, was accepted at
\* 10:05 on a Monday
C26_Witness ==
    /\ resp.op = "request_pass"
    /\ resp.flash = Requested
    /\ enforce_window
    /\ LastLog.message = RequestMsg("t1", NoToken, 1)
    /\ periods[1].start_time = HM(10, 0)
    /\ periods[1].end_time = HM(10, 5)
    /\ periods[1].days_mask = <<"1", "1", "1", "1", "1", "0", "0">>
    /\ now = StartOfDay + ClockStep

\* the text is a time of day HH:MM: two digits, a colon, two digits, the
\* hour below 24 and the minute below 60
IsClock(s) ==
    /\ Len(s) = 5
    /\ s[3] = ":"
    /\ \A i \in {1, 2, 4, 5} : IsDigit(s[i])
    /\ 10 * DigitVal(s[1]) + DigitVal(s[2]) < 24
    /\ 10 * DigitVal(s[4]) + DigitVal(s[5]) < 60

\* the stored start or end of the period is text that is not a time of day
Malformed(cp) ==
    /\ cp.start_time # <<>>
    /\ cp.end_time # <<>>
    /\ ~(IsClock(cp.start_time) /\ IsClock(cp.end_time))

\* C27: schedule parsing fails open: a period whose stored start or end is
\* not a time HH:MM is always in window, so that no request or approval in
\* its context ends restricted or blocked for the window.
C27_FailOpen ==
    /\ \A p \in DOMAIN periods :
           Malformed(periods[p]) => is_now_in_window(periods[p], now)
    /\ Malformed(periods[1]) => resp.flash \notin {Restricted, ApprovalBlocked}

\* C28: the override ledger is append-only: in every step the rows there
\* were stay where they were and as they were, rows are added only by an
\* extension (single or batch), and each added row gives the deadline of its
\* pass before and after that step.
C28_LedgerAppendOnly ==
    [][/\ Len(overrides') >= Len(overrides)
       /\ \A i \in 1..Len(overrides) : overrides'[i] = overrides[i]
       /\ Len(overrides') > Len(overrides) =>
              /\ resp'.op \in OverrideOps
              /\ \A i \in (Len(overrides) + 1)..Len(overrides') :
                     /\ overrides'[i].pass_id \in PassIds
                     /\ overrides'[i].previous_expires_at =
                            passes[overrides'[i].pass_id].expires_at
                     /\ overrides'[i].new_expires_at =
                            passes'[overrides'[i].pass_id].expires_at]_vars

\* the first pass was extended twice: the ledger holds both rows, the first
\* as it was written
C28_Witness ==
    /\ resp.op = "override"
    /\ Len(overrides) = 2
    /\ overrides[1].pass_id = 1
    /\ overrides[2].pass_id = 1
    /\ overrides[1].new_expires_at = overrides[2].previous_expires_at
    /\ overrides[2].new_expires_at = passes[1].expires_at
    /\ overrides[1].previous_expires_at # overrides[2].previous_expires_at

LifecycleOps ==
    {"request_pass", "approve", "deny", "cancel", "override", "my_period_approve_all",
     "my_period_deny_selected", "my_period_cancel_selected", "my_period_override_selected"}

\* the messages of the lifecycle operations that went through
SuccessFlashes ==
    {Requested, Approved, ApprovedWithWarning, "Denied", "Pass cancelled.",
     "Timer overridden.", "Timer overridden. Warning logged.",
     "Approved pending pass(es).", "Denied pass(es).", "Cancelled pass(es).",
     "Overridden pass(es)."}

\* the audit actions of an operation
AuditActions(op) ==
    IF op = "request_pass" THEN {"pass_requested"}
    ELSE IF op \in {"approve", "my_period_approve_all"} THEN {"pass_approved"}
    ELSE IF op \in {"deny", "my_period_deny_selected"} THEN {"pass_denied"}
    ELSE IF op \in {"cancel", "my_period_cancel_selected"} THEN {"pass_cancelled"}
    ELSE IF op \in OverrideOps THEN {"override_admin", "override_teacher"}
    ELSE IF op = "index" THEN {"pass_auto_expired"}
    ELSE {}

\* the step created the pass or changed it, or added a row about it
Touched(pid) ==
    \/ pid > Len(passes)
    \/ passes'[pid] # passes[pid]
    \/ NewAssignments(pid) # {}
    \/ NewOverrides(pid) # {}

\* the audit rows a step appends about passes
NewPassLogs ==
    {i \in (Len(logs) + 1)..Len(logs') : logs'[i].target_type = "pass"}

\* C29: every lifecycle operation that goes through (request, approve, deny,
\* cancel, extend, single or batch) appends audit rows naming a user as the
\* actor, the action of the operation and the target pass, exactly one for
\* each pass it created or changed; a sweep appends exactly one row for each
\* pass it expires and no other; a rejected operation appends none.
C29_Audit ==
    [][/\ \A pid \in 1..Len(passes') :
              Touched(pid) => Cardinality(NewLogs(pid)) = 1
       /\ \A i \in NewPassLogs :
              /\ logs'[i].actor_id \in DOMAIN users
              /\ logs'[i].action \in AuditActions(resp'.op)
              /\ logs'[i].target_id \in 1..Len(passes')
              /\ logs'[i].action = "pass_requested" =>
                     logs'[i].actor_id = passes'[logs'[i].target_id].student_id
              /\ logs'[i].action = "override_admin" <=>
                     /\ resp'.op \in OverrideOps
                     /\ users[logs'[i].actor_id].role = "Admin"
       /\ resp'.op \in LifecycleOps =>
              IF resp'.flash \in SuccessFlashes
              THEN NewPassLogs # {}
              ELSE UNCHANGED tables
       /\ resp'.op = "index" =>
              \A i \in NewPassLogs :
                  /\ passes[logs'[i].target_id].state = ACTIVE
                  /\ passes'[logs'[i].target_id].state = EXPIRED]_vars

\* a student requested a second pass, and a later sweep by a member of staff
\* expired the first: each left its one audit row
C29_Witness ==
    /\ resp.op = "index"
    /\ Len(logs) = 3
    /\ Len(passes) = 2
    /\ logs[2].action = "pass_requested"
    /\ logs[2].actor_id = passes[2].student_id
    /\ logs[2].target_id = 2
    /\ logs[3].action = "pass_auto_expired"
    /\ logs[3].target_id = 1
    /\ users[logs[3].actor_id].role \in {"Teacher", "Admin"}
    /\ passes[1].state = EXPIRED

\* the audit rows of one action about one pass
Audited(pid, action) ==
    {i \in 1..Len(logs) :
        logs[i].target_type = "pass" /\ logs[i].target_id = pid /\ logs[i].action = action}

\* C30: an approve and a deny of the same Pending pass do not interleave: at
\* most one of them takes effect, so that no pass is Denied with issued_at
\* and expires_at set, and no pass has both an approval and a denial among
\* its audit rows.
C30_NoInterleaving ==
    \A pid \in PassIds :
        /\ passes[pid].state = DENIED =>
               passes[pid].issued_at = NULL /\ passes[pid].expires_at = NULL
        /\ Audited(pid, "pass_approved") = {} \/ Audited(pid, "pass_denied") = {}

\* C31: two approvals of the same Pending pass that run together start its
\* timer once: the later commit is refused instead of applied, so no step of
\* approve changes issued_at or expires_at of a pass that is already Active.
C31_TimerStartedOnce ==
    [][\A pid \in PassIds :
          (resp'.op = "approve" /\ passes[pid].state = ACTIVE) =>
              /\ passes'[pid].issued_at = passes[pid].issued_at
              /\ passes'[pid].expires_at = passes[pid].expires_at]_vars

\* C32: each (pass, approver) pair is unique under every interleaving: when
\* two approvals of one pass by one approver run together, at most one
\* PassAssignment row for the pair is committed.
C32_PairUnique ==
    \A pid \in PassIds, u \in UserIds : AssignmentCount(pid, u) <= 1

\* the second of two such approvals has been refused at its commit, and the
\* first one's row is there
C32_Witness ==
    /\ resp.op = "approve" /\ resp.flash = ServerError
    /\ \E pid \in PassIds, u \in UserIds :
          /\ AssignmentCount(pid, u) = 1
          /\ \E i \in Audited(pid, "pass_approved") : logs[i].actor_id = u

\* C33: in every reachable state a Pending pass has issued_at and expires_at
\* unset and an Active pass has both set.
C33_TimesFollowState ==
    \A pid \in PassIds :
        /\ passes[pid].state = PENDING =>
               passes[pid].issued_at = NULL /\ passes[pid].expires_at = NULL
        /\ passes[pid].state = ACTIVE =>
               passes[pid].issued_at # NULL /\ passes[pid].expires_at # NULL

\* a requested pass has been approved and is Active with both instants set
C33_Witness ==
    \E pid \in PassIds :
        /\ Audited(pid, "pass_requested") # {}
        /\ Audited(pid, "pass_approved") # {}
        /\ passes[pid].state = ACTIVE
        /\ passes[pid].issued_at # NULL /\ passes[pid].expires_at # NULL

\* the requests recorded with a context period
WithContext ==
    {i \in 1..Len(logs) :
        logs[i].action = "pass_requested" /\ logs[i].message.period # NoPeriod}

\* C39: whenever resolution yields both an approver and a context period, by
\* the kiosk's period, by the period chosen in the form or by inference from
\* the enrollments, the context period is a period of that approver; so is
\* the period recorded with every pass requested.
C39_ContextOwned ==
    /\ \A u \in Students, token \in KioskTokens, cp \in PeriodInputs :
          \A first \in FirstChoices(u) :
              LET r == Resolve(u, token, cp, first)
              IN  (r.teacher # NoUser /\ r.cp # NoPeriod) =>
                      r.cp \in DOMAIN periods /\ Owner(r.cp) = r.teacher
    /\ \A i \in WithContext :
          /\ Owner(logs[i].message.period) = logs[i].message.teacher
          /\ IsAssigned(logs[i].target_id, Owner(logs[i].message.period))

\* a kiosk bound to the second teacher was used with strict binding off, and
\* the student chose a period of the first teacher: both come from the choice
C39_Witness ==
    /\ ~kiosk_strict
    /\ \E i \in WithContext :
          /\ logs[i].message.kiosk = "K2"
          /\ kiosk_teacher_id("K2") = "t2"
          /\ logs[i].message.teacher = "t1"
          /\ Owner(logs[i].message.period) = "t1"

\* C40: with enforce_period_time_window true, a request whose resolved
\* context period is out of window creates no pass, no PassAssignment and no
\* audit row, whatever the value of allow_teacher_approval_outside_period:
\* the restricted response leaves every table as it was, and a pass is
\* created only with no context period or one that is in window.
C40_RequestWindow ==
    [][(resp'.op = "request_pass" /\ Stored("enforce_period_time_window", "true")) =>
          /\ resp'.flash = Restricted => UNCHANGED tables
          /\ resp'.flash # Requested => UNCHANGED tables
          /\ resp'.flash = Requested =>
                \/ CreatedLog.message.period = NoPeriod
                \/ is_now_in_window(periods[CreatedLog.message.period], now)]_vars

\* a request was refused for the window while approval outside it is allowed
C40_Witness ==
    /\ LenientWindow
    /\ resp.op = "request_pass"
    /\ resp.flash = Restricted
    /\ \E first \in FirstChoices("s1") :
          ~is_now_in_window(periods[Resolve("s1", NoToken, NoPeriod, first).cp], now)

\* the user the step's last audit row names as its actor
StepActor == logs'[Len(logs')].actor_id

\* C35: the window policy applies to every approval path: with
\* enforce_period_time_window true and allow_teacher_approval_outside_period
\* false, no step, of approve or of the batch approval, moves a pass from
\* Pending to Active for a teacher while a period of that teacher in which
\* the requester is actively enrolled is out of window.
C35_EveryPath ==
    [][StrictWindow =>
          \A pid \in PassIds :
              (passes[pid].state = PENDING /\ passes'[pid].state = ACTIVE
                  /\ StepActor \in DOMAIN users /\ users[StepActor].role = "Teacher") =>
                  \A cp \in StudentPeriodsOf(passes[pid].student_id, StepActor) :
                      is_now_in_window(periods[cp], now)]_vars

\* the Override rows of a pass in the order of their creation
LedgerOf(ov, pid) == SelectSeq(ov, LAMBDA o : o.pass_id = pid)

\* C36: the Override rows of a pass, in creation order, form a chain: each
\* row's previous_expires_at is the new_expires_at of the row before it, the
\* pass's expires_at is the new_expires_at of its newest row, and the first
\* row's previous_expires_at is the deadline the approval set, which no step
\* changes before that row is written.
C36_Chain ==
    /\ [](\A pid \in PassIds :
             LET rows == LedgerOf(overrides, pid)
             IN  /\ \A i \in 2..Len(rows) :
                        rows[i].previous_expires_at = rows[i - 1].new_expires_at
                 /\ rows # <<>> => passes[pid].expires_at = rows[Len(rows)].new_expires_at)
    /\ [][\A pid \in PassIds :
             (LedgerOf(overrides, pid) = <<>> /\ passes[pid].expires_at # NULL) =>
                 IF LedgerOf(overrides', pid) = <<>>
                 THEN passes'[pid].expires_at = passes[pid].expires_at
                 ELSE LedgerOf(overrides', pid)[1].previous_expires_at
                          = passes[pid].expires_at]_vars

\* a pass extended twice, the second time by a negative number of minutes
C36_Witness ==
    \E pid \in PassIds :
        LET rows == LedgerOf(overrides, pid)
        IN  /\ Len(rows) = 2
            /\ rows[1].previous_expires_at = passes[pid].issued_at + 60 * destinations[1]
            /\ rows[2].previous_expires_at = rows[1].new_expires_at
            /\ rows[2].new_expires_at < rows[2].previous_expires_at
            /\ passes[pid].expires_at = rows[2].new_expires_at

\* C37: once set, a pass's expires_at never decreases: every step, of
\* approve, re-approve, override, batch override, the sweep or cancel, leaves
\* it unchanged or moves it later.
C37_NeverDecreases ==
    [][\A pid \in PassIds :
          passes[pid].expires_at # NULL =>
              /\ passes'[pid].expires_at # NULL
              /\ passes'[pid].expires_at >= passes[pid].expires_at]_vars

\* the step was taken by a user with the Teacher role who has no
\* PassAssignment for the pass
ByUnassignedTeacher(pid) ==
    /\ Len(logs') > Len(logs)
    /\ StepActor \in DOMAIN users
    /\ users[StepActor].role = "Teacher"
    /\ ~IsAssigned(pid, StepActor)

SingleOps == {"approve", "deny", "override"}
BatchOps ==
    {"my_period_approve_all", "my_period_deny_selected", "my_period_override_selected"}

\* C38: a Teacher can approve, deny or extend only passes assigned to them:
\* such an operation, single or batch, on a pass with no PassAssignment for
\* that teacher leaves the pass unchanged.
C38_OnlyAssigned ==
    [][\A pid \in PassIds :
          (resp'.op \in SingleOps \cup BatchOps /\ ByUnassignedTeacher(pid)) =>
              passes'[pid] = passes[pid]]_vars

\* C34: auto-expiry is live under demand-driven reconciliation: while time
\* keeps advancing, the staff index that runs the sweep keeps being opened
\* and only finitely many extensions are applied, every Active pass
\* eventually leaves Active, Expired by a sweep or Cancelled.
C34_EventuallyLeavesActive ==
    \A pid \in 1..MaxPasses :
        (pid \in PassIds /\ passes[pid].state = ACTIVE)
            ~> (pid \in PassIds /\ passes[pid].state \in {EXPIRED, CANCELLED})

\* a pass was extended and, its later deadline reached, expired by a sweep
C34_Witness ==
    \E pid \in PassIds :
        /\ LedgerOf(overrides, pid) # <<>>
        /\ Audited(pid, "pass_auto_expired") # {}
        /\ passes[pid].state = EXPIRED
        /\ passes[pid].expires_at > passes[pid].issued_at + 60 * 5
        /\ now >= passes[pid].expires_at

====
